---- MODULE Spec2Model ----
(***************************************************************************)
(* Model of euclio/seventeen: the line cache (src/editor/line_cache.rs)    *)
(* and the RPC transport to xi-core (src/core.rs).                         *)
(***************************************************************************)
EXTENDS Integers, Sequences, FiniteSets, TLC

(***************************************************************************)
(* Bounds of the model.                                                    *)
(***************************************************************************)
\* number of distinct line contents the engine can deliver
MaxLineVal == 2
\* largest total length (unknown + known lines) of a cache
MaxLines == 3
\* largest number of ops in one update
MaxOps == 2
\* largest n of an invalidate/copy/skip op
MaxN == 3
\* largest number of lines of one ins op
MaxIns == 2
\* largest bound of a range passed to iter_lines
MaxIdx == 4
\* u64 request ids are modelled as the integers modulo IdSpace (2^64 in the
\* program)
IdSpace == 3
\* largest number of calls of Core::request
MaxRequests == 3
\* largest number of lines other than responses the child writes
MaxNoise == 1
\* largest number of responses nobody asked for the child writes
MaxRogue == 1
\* the height and the width of the terminal
ScreenRows == 2
ScreenCols == 2
\* largest style id apply_style is called with
MaxStyleId == 2
\* largest style id define_style is called with
MaxDefineId == 3
\* largest length of a string written to the screen
MaxStrLen == 2
\* largest number of calls that change the pending buffer
MaxCalls == 2
\* largest number of calls of define_style and set_text_color
MaxSetups == 1
\* largest number of calls of refresh
MaxFlushes == 2
\* the u32 nesting counters are modelled as the integers modulo U32Mod (2^32
\* in the program)
U32Mod == 4
\* the number of style ids reserved by the backend
RESERVED_STYLES == 2
\* usize is modelled as the integers modulo UsizeMod (2^64 in the program)
UsizeMod == 32
\* largest number of style triples of a line
MaxTriples == 2
\* largest distance of a style span from the end of the span before it, in
\* either direction
MaxDelta == 1
\* largest length of a style span
MaxSpanLen == 2
\* largest column of a coordinate is_eol is asked about
MaxCol == 14
\* largest number of Update notifications the engine sends
MaxUpdates == 2
\* largest view id the engine gives a view
MaxViewId == 2
\* largest number of notifications the engine writes to the control loop
MaxNotifications == 2
\* largest number of characters typed into the command line
MaxCmdLen == 2
\* largest number of lines a window's cache holds
MaxWinLines == 2
\* 2^16 scaled down: u16 values are 0..U16Mod-1
U16Mod == 8

VARIABLES
    cache,          \* the LineCache of a view: invalid_before, lines, invalid_after
    old_cache,      \* the cache as it was when the last update started
    last_ops,       \* the ops of the last update
    cache_status,   \* "new", "ok" or the panic that ended the last update
    assert_ok,      \* outcome of the debug assertion of the last update
    updates,        \* number of Update notifications applied so far
    iter_range,     \* the range of the last iter_lines call
    iter_result,    \* what that call returned
    request_map,    \* Core.request_map: id -> completer (serial of the request)
    next_id,        \* Core.next_id
    lock,           \* the Mutex of request_map: "free", "caller", "reader", "poisoned"
    caller_pc,      \* where the caller thread is in Core::request
    caller_id,      \* the local id of Core::request
    handles,        \* the futures Core::request returned, by serial
    core_inbox,     \* requests written to the child that it has not answered
    stdout,         \* lines the child wrote that the reader has not read
    reader_pc,      \* where the reader thread is
    reader_held,    \* the completer and response the reader holds
    events,         \* notifications sent to event_tx
    noise,          \* lines other than responses the child wrote so far
    rogue,          \* responses nobody asked for the child wrote so far
    parse_errors,   \* lines the reader logged as not deserializable
    main_pc,        \* the main thread: "run" (control loop), "drop", "exited"
    dropping,       \* the fields of Editor still to be dropped
    stdin,          \* Core.stdin: "Some" (open) or "None" (closed)
    child,          \* the child process: "running" or "exited"
    terminal,       \* the terminal: "raw" (alternate screen) or "restored"
    buf,            \* Screen.buf: the rows of cells to display at the next refresh
    cur_buf,        \* Screen.cur_buf: the rows of cells on display
    styles,         \* Screen.styles: the style of each id
    text_color,     \* Screen.text_color: foreground and background
    out,            \* what the last call wrote to Screen.out
    log,            \* the steps of the nesting counters in the last call
    screen_result,  \* what the last call returned: "Ok" or "Err" (refresh),
                    \* "none" (any other call, or no call yet), "panic"
    calls,          \* number of calls that changed the pending buffer so far
    setups,         \* the number of define_style and set_text_color calls so far
    flushes,        \* number of calls of refresh so far
    spans,          \* the visible parts of the spans apply_style was called with
    line_styles,    \* Line.styles of the line whose style spans are read
    style_triples,  \* StyleIterator.style_triples: the numbers not yet read
    last_span_end,  \* StyleIterator.last_span_end
    span_items,     \* the spans the iterator returned so far
    span_status,    \* "ok", "done" (the iterator returned None) or "panic"
    eol_coordinate, \* the coordinate of the last is_eol call
    eol_result,     \* what that call returned
    editor_pc,      \* the main thread in Editor: "new", "wait" (new_view waits for
                    \* its response), "run" (control loop), "exited", "panic"
    mode,           \* Editor.mode: Normal, Insert or Command with its CommandLine
    windows,        \* Editor.windows: the view ids that have a window
    active_view,    \* Editor.active_view
    view_request,   \* the new_view request: "none", "sent" or "answered"
    engine_view,    \* the view id the child answered the new_view request with
    engine_pipe,    \* lines the child wrote that the reader has not read
    view_future,    \* the future of the new_view request: the view id once resolved
    notifications,  \* the notification channel from the reader to the control loop
    emitted,        \* number of notifications the child wrote so far
    lookup,         \* the last lookup of a window by a notification handler:
                    \* "none" (no lookup yet), "found" or "missing"
    last_event,     \* the event the control loop handled last
    window,         \* the Window of the view
    window_old,     \* the offsets of the window before the last scroll_to, and
                    \* the coordinate of that call
    window_status,  \* "new", "scrolled", "rendered", or the panic of the last call
    addressed       \* the cells of the screen the last render addressed

cache_vars == <<cache, old_cache, last_ops, cache_status, assert_ok, updates>>
editor_vars == <<editor_pc, mode, windows, active_view, view_request, engine_view,
                 engine_pipe, view_future, notifications, emitted, lookup, last_event>>
window_vars == <<window, window_old, window_status, addressed>>
ui_vars == <<editor_vars, window_vars>>
non_editor_vars == <<cache, old_cache, last_ops, cache_status, assert_ok, updates,
                     iter_range, iter_result,
                     request_map, next_id, lock, caller_pc, caller_id, handles,
                     core_inbox, stdout, reader_pc, reader_held, events, noise,
                     rogue, parse_errors, main_pc, dropping, stdin, child, terminal,
                     buf, cur_buf, styles, text_color, out, log, screen_result, calls,
                     setups, flushes, spans,
                     line_styles, style_triples, last_span_end, span_items, span_status,
                     eol_coordinate, eol_result, window_vars>>
line_vars == <<line_styles, style_triples, last_span_end, span_items, span_status,
               eol_coordinate, eol_result, ui_vars>>
iter_vars == <<iter_range, iter_result, line_vars>>
shutdown_vars == <<main_pc, dropping, stdin, child, terminal>>
core_vars == <<request_map, next_id, lock, caller_pc, caller_id, handles,
               core_inbox, stdout, reader_pc, reader_held, events, noise,
               rogue, parse_errors, shutdown_vars>>
screen_vars == <<buf, cur_buf, styles, text_color, out, log, screen_result, calls, setups, flushes, spans>>
vars == <<cache, old_cache, last_ops, cache_status, assert_ok, updates,
          iter_range, iter_result,
          request_map, next_id, lock, caller_pc, caller_id, handles,
          core_inbox, stdout, reader_pc, reader_held, events, noise,
          rogue, parse_errors, main_pc, dropping, stdin, child, terminal,
          buf, cur_buf, styles, text_color, out, log, screen_result, calls, setups, flushes, spans,
          line_styles, style_triples, last_span_end, span_items, span_status,
          eol_coordinate, eol_result,
          editor_pc, mode, windows, active_view, view_request, engine_view,
          engine_pipe, view_future, notifications, emitted, lookup, last_event,
          window, window_old, window_status, addressed>>

Min(a, b) == IF a < b THEN a ELSE b

(***************************************************************************)
(* LineCache                                                               *)
(***************************************************************************)
LineVals == 1..MaxLineVal

\* LineCache::new, LineCache::default
EmptyCache == [invalid_before |-> 0, lines |-> <<>>, invalid_after |-> 0]

\* LineCache::len
len(self) == self.invalid_before + Len(self.lines) + self.invalid_after

\* LineCache::ins
ins(self, lines) == [self EXCEPT !.lines = @ \o lines]

invalidate_always_before(self, n) == [self EXCEPT !.invalid_before = @ + n]

\* LineCache::invalidate
invalidate(self, n) ==
    IF self.lines = <<>>
    THEN [self EXCEPT !.invalid_before = @ + n]
    ELSE [self EXCEPT !.invalid_after = @ + n]

drain_back(lines, n) ==
    [drained |-> SubSeq(lines, Len(lines) - n + 1, Len(lines)),
     rest |-> SubSeq(lines, 1, Len(lines) - n)]

\* Vec::drain(..n): removes and returns the first n elements
drain(lines, n) ==
    [drained |-> SubSeq(lines, 1, n),
     rest |-> SubSeq(lines, n + 1, Len(lines))]

\* LineCache::copy; the result holds the new cache and the drained old cache
copy(self, n, old_cache_) ==
    LET takes_invalid == n > 0 /\ old_cache_.invalid_before > 0
        num_invalid ==
            IF takes_invalid
            THEN IF old_cache_.invalid_before > n THEN n ELSE old_cache_.invalid_before
            ELSE 0
        old1 == [old_cache_ EXCEPT !.invalid_before = @ - num_invalid]
        self1 == IF takes_invalid THEN invalidate(self, num_invalid) ELSE self
        n1 == n - num_invalid
        takes_lines == n1 > 0 /\ old1.lines # <<>>
        d == IF Len(old1.lines) > n1
             THEN drain(old1.lines, n1)
             ELSE drain(old1.lines, Len(old1.lines))
    IN  IF takes_lines
        THEN [self |-> [self1 EXCEPT !.lines = @ \o d.drained],
              old_cache |-> [old1 EXCEPT !.lines = d.rest]]
        ELSE [self |-> self1, old_cache |-> old1]

skip_nothing(self, n) == self

\* LineCache::skip, called on the old cache
skip(self, n) ==
    LET takes_invalid == n > 0 /\ self.invalid_before > 0
        num_invalid ==
            IF takes_invalid
            THEN IF self.invalid_before > n THEN n ELSE self.invalid_before
            ELSE 0
        self1 == [self EXCEPT !.invalid_before = @ - num_invalid]
        n1 == n - num_invalid
        takes_lines == n1 > 0 /\ self1.lines # <<>>
        d == IF Len(self1.lines) > n1
             THEN drain(self1.lines, n1)
             ELSE drain(self1.lines, Len(self1.lines))
    IN  IF takes_lines THEN [self1 EXCEPT !.lines = d.rest] ELSE self1

\* protocol::OpKind
OpKind == {"copy", "skip", "invalidate", "update", "ins"}

NoLines == <<>>

\* the state of LineCache::update while it applies the ops
no_swap(self) ==
    [self |-> self, old_cache |-> self, expected_lines |-> 0, panic |-> "none"]

\* LineCache::update, before the loop: the cache is swapped with a new one
swap_new(self) ==
    [self |-> EmptyCache, old_cache |-> self, expected_lines |-> 0, panic |-> "none"]

\* LineCache::update, one iteration of the loop over the ops
apply_op(st, op) ==
    IF st.panic # "none" THEN st
    ELSE IF op.op = "ins"
    THEN [st EXCEPT !.self = ins(st.self, op.lines),
                    !.expected_lines = @ + op.n]
    ELSE IF op.op = "invalidate"
    THEN [st EXCEPT !.self = invalidate(st.self, op.n),
                    !.expected_lines = @ + op.n]
    ELSE IF op.op = "copy"
    THEN LET c == copy(st.self, op.n, st.old_cache)
         IN  [st EXCEPT !.self = c.self,
                        !.old_cache = c.old_cache,
                        !.expected_lines = @ + op.n]
    ELSE IF op.op = "skip"
    THEN [st EXCEPT !.old_cache = skip(st.old_cache, op.n)]
    ELSE [st EXCEPT !.panic = "unimplemented"]

RECURSIVE apply_ops(_, _)
apply_ops(st, ops) ==
    IF ops = <<>> THEN st
    ELSE apply_ops(apply_op(st, Head(ops)), Tail(ops))

\* LineCache::update up to the debug assertion
update(self, ops) == apply_ops(swap_new(self), ops)

\* LineCache::iter_lines; usize arithmetic wraps in a release build and panics
\* in a debug build, hence the two results
IterNone == [kind |-> "None", lines |-> <<>>]
IterPanic == [kind |-> "panic", lines |-> <<>>]
IterSome(ls) == [kind |-> "Some", lines |-> ls]

\* Iterator::skip(start).take(num) over a Vec
skip_take(lines, start, num) ==
    SubSeq(lines, start + 1, Min(start + num, Len(lines)))

\* LineCache::iter_lines, the test that the range contains invalid lines
past_known(self, start, num) ==
    start < self.invalid_before
        \/ self.invalid_before + Len(self.lines) < start + num

iter_lines(self, range, debug_build) ==
    LET start == IF range.start.kind = "Included" THEN range.start.bound
                 ELSE IF range.start.kind = "Excluded" THEN range.start.bound + 1
                 ELSE 0
        raw == IF range.end.kind = "Included" THEN range.end.bound - start
               ELSE IF range.end.kind = "Excluded" THEN range.end.bound - 1 - start
               ELSE len(self) - start
        num == raw % UsizeMod
        sum == (start + num) % UsizeMod
        overflow == raw < 0 \/ start + num >= UsizeMod
    IN  IF debug_build /\ overflow THEN IterPanic
        ELSE IF past_known(self, start, sum) THEN IterNone
        ELSE IterSome(skip_take(self.lines, start - self.invalid_before, num))

(***************************************************************************)
(* Inputs                                                                  *)
(***************************************************************************)
SeqsUpTo(S, n) == UNION {[1..k -> S] : k \in 0..n}

\* protocol::Op as the engine sends it: no op is empty, an ins op carries its
\* lines and n is their number
OpSet ==
    [op : {"copy", "skip", "invalidate", "update"}, n : 1..MaxN, lines : {NoLines}]
        \cup {[op |-> "ins", n |-> Len(ls), lines |-> ls] :
                ls \in SeqsUpTo(LineVals, MaxIns) \ {<<>>}}

RECURSIVE Consumed(_), Produced(_)
\* the number of lines of the old cache that the ops of an update refer to
Consumed(ops) ==
    IF ops = <<>> THEN 0
    ELSE (IF Head(ops).op \in {"copy", "skip", "update"} THEN Head(ops).n ELSE 0)
            + Consumed(Tail(ops))

\* the lines an op adds to the expected length of the new cache
Produced(ops) ==
    IF ops = <<>> THEN 0
    ELSE (IF Head(ops).op # "skip" THEN Head(ops).n ELSE 0)
            + Produced(Tail(ops))

RECURSIVE OpSeqs(_, _, _)
\* the updates of at most k ops that refer to at most c lines of the old cache
\* and describe a document of at most p lines
OpSeqs(k, c, p) ==
    {<<>>} \cup
        IF k = 0 THEN {}
        ELSE UNION {{<<op>> \o rest :
                        rest \in OpSeqs(k - 1, c - Consumed(<<op>>), p - Produced(<<op>>))} :
                    op \in {o \in OpSet : Consumed(<<o>>) <= c /\ Produced(<<o>>) <= p}}

\* std::ops::Bound of a range
BoundSet ==
    [kind : {"Included", "Excluded"}, bound : 0..MaxIdx]
        \cup {[kind |-> "Unbounded", bound |-> 0]}
RangeSet == [start : BoundSet, end : BoundSet]
NoRange == [start |-> [kind |-> "none", bound |-> 0], end |-> [kind |-> "none", bound |-> 0]]

\* the caches an update can build: unknown lines follow known lines only
CacheSet ==
    {c \in [invalid_before : 0..MaxLines,
            lines : SeqsUpTo(LineVals, MaxLines),
            invalid_after : 0..MaxLines] :
        /\ len(c) <= MaxLines
        /\ (c.invalid_after > 0 => c.lines # <<>>)}

(***************************************************************************)
(* Actions                                                                 *)
(***************************************************************************)
InitCache ==
    /\ cache = EmptyCache
    /\ old_cache = EmptyCache
    /\ last_ops = <<>>
    /\ cache_status = "new"
    /\ assert_ok = TRUE
    /\ updates = 0

InitIter ==
    /\ iter_range = NoRange
    /\ iter_result = IterNone

\* Editor::update -> LineCache::update: the engine's Update notification is
\* applied to the cache of the view.  The engine refers to no more lines of
\* the old cache than the cache holds.
Update ==
    /\ cache_status \in {"new", "ok"}
    /\ updates < MaxUpdates
    /\ updates' = updates + 1
    /\ \E ops \in OpSeqs(MaxOps, len(cache), MaxLines) :
       LET r == update(cache, ops)
       IN  /\ Consumed(ops) <= len(cache)
           /\ cache' = r.self
           /\ old_cache' = cache
           /\ last_ops' = ops
           /\ assert_ok' = (r.panic # "none" \/ r.expected_lines = len(r.self))
           /\ cache_status' \in
                IF r.panic # "none" THEN {r.panic}
                ELSE IF r.expected_lines = len(r.self) THEN {"ok"}
                ELSE {"ok", "assert_failed"}
    /\ UNCHANGED <<iter_vars, core_vars, screen_vars>>

\* a caller reads a range of lines
IterLines(range, debug_build) ==
    /\ iter_result' = iter_lines(cache, range, debug_build)
    /\ iter_range' = range
    /\ UNCHANGED <<line_vars, cache_vars, core_vars, screen_vars>>

(***************************************************************************)
(* Core: the transport to the xi-core child process                        *)
(***************************************************************************)
Ids == 0..(IdSpace - 1)
Serials == 1..MaxRequests
NoId == IdSpace
NoSerial == 0

\* u64::wrapping_add(1)
wrapping_add_1(id) == (id + 1) % IdSpace

never_contains(map, id) == FALSE

\* HashMap::contains_key
contains_key(map, id) == id \in DOMAIN map

insert_only(map, id, c) ==
    [map |-> [k \in {id} |-> c],
     existing |-> IF id \in DOMAIN map THEN map[id] ELSE NoSerial]

\* HashMap::insert; existing is the value the key had, or NoSerial
insert(map, id, c) ==
    [map |-> [k \in DOMAIN map \cup {id} |-> IF k = id THEN c ELSE map[k]],
     existing |-> IF id \in DOMAIN map THEN map[id] ELSE NoSerial]

remove_lowest(map, id) ==
    IF DOMAIN map = {} THEN [map |-> map, completer |-> NoSerial]
    ELSE LET low == CHOOSE k \in DOMAIN map : \A j \in DOMAIN map : k <= j
         IN  [map |-> [k \in DOMAIN map \ {low} |-> map[k]], completer |-> map[low]]

\* HashMap::remove; completer is the value removed, or NoSerial
remove(map, id) ==
    IF id \in DOMAIN map
    THEN [map |-> [k \in DOMAIN map \ {id} |-> map[k]], completer |-> map[id]]
    ELSE [map |-> map, completer |-> NoSerial]

\* serde_json::Value and Option<Value>: a value carries the serial of the
\* request it was computed for (NoSerial when it belongs to no request) and
\* whether it is a JSON string
None == [tag |-> NoSerial, json |-> "none"]
Str(s) == [tag |-> s, json |-> "string"]
Other(s) == [tag |-> s, json |-> "other"]

\* the Response a completer carries before anything was sent to it
NoResponse == [result |-> None, error |-> None]

\* the slot of the reader thread when it holds no response
NoHeld == [id |-> NoId, completer |-> NoSerial, res |-> NoResponse]

\* the item of a future that nobody waited for yet
NoOutcome == [kind |-> "none", value |-> NoSerial]

\* the responses a well-behaved child writes for the request with serial s:
\* the view id (a string) as result, or an error value
Answers(s) ==
    {[result |-> Str(s), error |-> None], [result |-> None, error |-> Other(s)]}

\* the responses of a child that breaks the protocol: every combination of a
\* present or absent result and error, the values belonging to no request
\* and the result not a view id
Responses ==
    {[result |-> r, error |-> e] :
        r \in {None, Other(NoSerial)}, e \in {None, Other(NoSerial)}}

from_value_any(v) == [ok |-> TRUE, value |-> v.tag]

\* serde_json::from_value::<ViewId>: a view id is a JSON string
from_value(v) == IF v.json = "string" THEN [ok |-> TRUE, value |-> v.tag]
                                      ELSE [ok |-> FALSE, value |-> v.tag]

into_result_error_is_fatal(res) ==
    IF res.result # None /\ res.error = None
    THEN IF from_value(res.result).ok
         THEN [kind |-> "Ok", value |-> from_value(res.result).value]
         ELSE [kind |-> "Protocol", value |-> res.result.tag]
    ELSE [kind |-> "panic", value |-> NoSerial]

\* Response::into_result
into_result(res) ==
    IF res.result # None /\ res.error = None
    THEN IF from_value(res.result).ok
         THEN [kind |-> "Ok", value |-> from_value(res.result).value]
         ELSE [kind |-> "Protocol", value |-> res.result.tag]
    ELSE IF res.result = None /\ res.error # None
    THEN [kind |-> "BadResponse", value |-> res.error.tag]
    ELSE [kind |-> "panic", value |-> NoSerial]

expect_skips_missing(completer) == IF completer = NoSerial THEN "read" ELSE "unlock"

\* Option::expect("got response without a request"): where the reader thread
\* goes after the lookup
expect(completer) == IF completer = NoSerial THEN "panic" ELSE "unlock"

parse_error_aborts == "stopped"

\* the `continue` of the reader thread after a line that does not parse
parse_error_pc == "read"

leak_guard(lock_) == lock_

\* the MutexGuard goes out of scope
drop_guard(lock_) == "free"

screen_first == <<"screen", "core", "windows", "mode">>

\* the fields of Editor in declaration order, the order they are dropped in
drop_order == <<"core", "windows", "mode", "screen">>

\* Core::spawn: an empty table, next_id 0, the reader thread waiting for a
\* line; Editor::new and run: the terminal in raw mode on the alternate
\* screen, the control loop running
InitCore ==
    /\ request_map = <<>>
    /\ next_id = 0
    /\ lock = "free"
    /\ caller_pc = "idle"
    /\ caller_id = NoId
    /\ handles = <<>>
    /\ core_inbox = {}
    /\ stdout = <<>>
    /\ reader_pc = "read"
    /\ reader_held = NoHeld
    /\ events = 0
    /\ noise = 0
    /\ rogue = 0
    /\ parse_errors = 0
    /\ main_pc = "run"
    /\ dropping = <<>>
    /\ stdin = "Some"
    /\ child = "running"
    /\ terminal = "raw"

\* Core::request with the request written to the child before its completer
\* is put into the table
RequestInsert_written_first ==
    /\ main_pc = "run"
    /\ caller_pc = "idle"
    /\ lock = "free"
    /\ Len(handles) < MaxRequests
    /\ caller_id' = next_id
    /\ handles' = Append(handles, [id |-> next_id, state |-> "pending",
                                   payload |-> NoResponse, outcome |-> NoOutcome])
    /\ core_inbox' = core_inbox \cup {[id |-> next_id, req |-> Len(handles) + 1]}
    /\ caller_pc' = "loop_check"
    /\ lock' = "caller"
    /\ UNCHANGED <<request_map, next_id, stdout, reader_pc, reader_held, events, noise,
                   rogue, parse_errors, shutdown_vars>>
    /\ UNCHANGED <<cache_vars, iter_vars, screen_vars>>

\* Core::request, from the oneshot to the assertion: the lock is taken and the
\* completer inserted under the id next_id; lock().unwrap() panics when the
\* mutex is poisoned
RequestInsert ==
    /\ main_pc = "run"
    /\ caller_pc = "idle"
    /\ lock \in {"free", "poisoned"}
    /\ Len(handles) < MaxRequests
    /\ IF lock = "poisoned"
       THEN /\ caller_pc' = "panic"
            /\ UNCHANGED <<caller_id, request_map, handles, lock>>
       ELSE LET serial == Len(handles) + 1
                ins_ == insert(request_map, next_id, serial)
            IN  /\ caller_id' = next_id
                /\ request_map' = ins_.map
                /\ handles' = Append(handles, [id |-> next_id, state |-> "pending",
                                               payload |-> NoResponse,
                                               outcome |-> NoOutcome])
                /\ IF ins_.existing = NoSerial
                   THEN caller_pc' = "loop_check" /\ lock' = "caller"
                   ELSE caller_pc' = "panic" /\ lock' = "poisoned"
    /\ UNCHANGED <<next_id, core_inbox, stdout, reader_pc, reader_held, events, noise,
                   rogue, parse_errors, shutdown_vars>>
    /\ UNCHANGED <<cache_vars, iter_vars, screen_vars>>

\* Core::request, the condition of the while loop; when it is false the block
\* ends and the lock is released
RequestLoopCheck ==
    /\ caller_pc = "loop_check"
    /\ IF contains_key(request_map, next_id)
       THEN caller_pc' = "loop_body" /\ lock' = lock
       ELSE caller_pc' = "send" /\ lock' = drop_guard(lock)
    /\ UNCHANGED <<request_map, next_id, caller_id, handles, core_inbox, stdout,
                   reader_pc, reader_held, events, noise,
                   rogue, parse_errors, shutdown_vars>>
    /\ UNCHANGED <<cache_vars, iter_vars, screen_vars>>

\* Core::request, the body of the while loop
RequestLoopBody ==
    /\ caller_pc = "loop_body"
    /\ next_id' = wrapping_add_1(caller_id)
    /\ caller_pc' = "loop_check"
    /\ UNCHANGED <<request_map, lock, caller_id, handles, core_inbox, stdout,
                   reader_pc, reader_held, events, noise,
                   rogue, parse_errors, shutdown_vars>>
    /\ UNCHANGED <<cache_vars, iter_vars, screen_vars>>

\* Core::request -> Core::send_to_core: the request is written to the child
\* and the future returned; the request carries its serial as its parameter
RequestSend ==
    /\ caller_pc = "send"
    /\ core_inbox' = core_inbox \cup {[id |-> caller_id, req |-> Len(handles)]}
    /\ caller_pc' = "idle"
    /\ UNCHANGED <<request_map, next_id, lock, caller_id, handles, stdout,
                   reader_pc, reader_held, events, noise,
                   rogue, parse_errors, shutdown_vars>>
    /\ UNCHANGED <<cache_vars, iter_vars, screen_vars>>

\* Core::notify: a notification is written to the child; the table and the
\* lock are not touched
Notify ==
    /\ main_pc = "run"
    /\ caller_pc = "idle"
    /\ core_inbox' = core_inbox \cup {[id |-> NoId, req |-> NoSerial]}
    /\ UNCHANGED <<request_map, next_id, lock, caller_pc, caller_id, handles, stdout,
                   reader_pc, reader_held, events, noise,
                   rogue, parse_errors, shutdown_vars>>
    /\ UNCHANGED <<cache_vars, iter_vars, screen_vars>>

\* Core::new_view(..).wait(): the future of a request resolved, and_then
\* applies into_result to the response; a panic of into_result unwinds the
\* waiting thread
FutureWait ==
    /\ main_pc = "run"
    /\ caller_pc = "idle"
    /\ \E s \in 1..Len(handles) :
        /\ handles[s].state = "resolved"
        /\ handles[s].outcome = NoOutcome
        /\ handles' = [handles EXCEPT ![s].outcome = into_result(handles[s].payload)]
        /\ caller_pc' = IF into_result(handles[s].payload).kind = "panic"
                        THEN "panic" ELSE caller_pc
    /\ UNCHANGED <<request_map, next_id, lock, caller_id, core_inbox, stdout,
                   reader_pc, reader_held, events, noise,
                   rogue, parse_errors, shutdown_vars>>
    /\ UNCHANGED <<cache_vars, iter_vars, screen_vars>>

\* the child answers a request it received, in any order, with the result
\* that belongs to the request or with an error value
EngineRespond ==
    /\ child = "running"
    /\ \E m \in core_inbox :
        /\ m.id # NoId
        /\ core_inbox' = core_inbox \ {m}
        /\ \E res \in Answers(m.req) :
            stdout' = Append(stdout, [kind |-> "response", id |-> m.id, res |-> res])
    /\ UNCHANGED <<request_map, next_id, lock, caller_pc, caller_id, handles,
                   reader_pc, reader_held, events, noise,
                   rogue, parse_errors, shutdown_vars>>
    /\ UNCHANGED <<cache_vars, iter_vars, screen_vars>>

\* the child reads a notification; it sends no response to it
EngineTake ==
    /\ child = "running"
    /\ \E m \in core_inbox :
        /\ m.id = NoId
        /\ core_inbox' = core_inbox \ {m}
    /\ UNCHANGED <<request_map, next_id, lock, caller_pc, caller_id, handles, stdout,
                   reader_pc, reader_held, events, noise,
                   rogue, parse_errors, shutdown_vars>>
    /\ UNCHANGED <<cache_vars, iter_vars, screen_vars>>

\* the lines other than responses: a notification, a request with any id, a
\* line that does not parse, a read that fails
NoiseLines ==
    {[kind |-> "notification", id |-> NoId, res |-> NoResponse],
     [kind |-> "malformed", id |-> NoId, res |-> NoResponse],
     [kind |-> "io_error", id |-> NoId, res |-> NoResponse]}
    \cup {[kind |-> "request", id |-> i, res |-> NoResponse] : i \in Ids}

\* the child writes a line other than a response
EngineNoise ==
    /\ child = "running"
    /\ noise < MaxNoise
    /\ rogue = 0
    /\ noise' = noise + 1
    /\ \E line \in NoiseLines : stdout' = Append(stdout, line)
    /\ UNCHANGED <<request_map, next_id, lock, caller_pc, caller_id, handles,
                   core_inbox, reader_pc, reader_held, events,
                   rogue, parse_errors, shutdown_vars>>
    /\ UNCHANGED <<cache_vars, iter_vars, screen_vars>>

\* a child that breaks the protocol writes a response nobody asked for: any
\* id, any combination of result and error; it writes no other noise
EngineRogue ==
    /\ child = "running"
    /\ rogue < MaxRogue
    /\ noise = 0
    /\ rogue' = rogue + 1
    /\ \E i \in Ids, res \in Responses :
        stdout' = Append(stdout, [kind |-> "response", id |-> i, res |-> res])
    /\ UNCHANGED <<request_map, next_id, lock, caller_pc, caller_id, handles,
                   core_inbox, reader_pc, reader_held, events, noise,
                   parse_errors, shutdown_vars>>
    /\ UNCHANGED <<cache_vars, iter_vars, screen_vars>>

\* the reader thread of Core::spawn, one line up to the dispatch: a failed
\* read ends the thread, a line that does not parse and a request are logged,
\* a notification is sent to event_tx (the send fails once the control loop
\* dropped the receiver), a response goes on to the table
ReaderLine ==
    /\ reader_pc = "read"
    /\ stdout # <<>>
    /\ LET line == Head(stdout)
       IN  /\ stdout' = Tail(stdout)
           /\ events' = IF line.kind = "notification" /\ main_pc = "run"
                        THEN events + 1 ELSE events
           /\ parse_errors' = IF line.kind = "malformed"
                              THEN parse_errors + 1 ELSE parse_errors
           /\ reader_pc' = CASE line.kind = "io_error" -> "stopped"
                             [] line.kind = "malformed" -> parse_error_pc
                             [] line.kind = "notification" ->
                                    IF main_pc = "run" THEN "read" ELSE "panic"
                             [] line.kind = "request" -> "read"
                             [] line.kind = "response" -> "remove"
           /\ reader_held' = IF line.kind = "response"
                             THEN [id |-> line.id, completer |-> NoSerial, res |-> line.res]
                             ELSE reader_held
    /\ UNCHANGED <<request_map, next_id, lock, caller_pc, caller_id, handles,
                   core_inbox, noise, rogue, shutdown_vars>>
    /\ UNCHANGED <<cache_vars, iter_vars, screen_vars>>

\* the reader thread, response_map.lock().unwrap().remove(&id).expect(..):
\* the guard lives to the end of the statement, so a panic of expect poisons
\* the mutex
ReaderRemove ==
    /\ reader_pc = "remove"
    /\ lock \in {"free", "poisoned"}
    /\ IF lock = "poisoned"
       THEN /\ reader_pc' = "panic"
            /\ UNCHANGED <<request_map, lock, handles, reader_held>>
       ELSE LET rem == remove(request_map, reader_held.id)
                next == expect(rem.completer)
            IN  /\ reader_pc' = next
                /\ lock' = CASE next = "panic" -> "poisoned"
                             [] next = "unlock" -> "reader"
                             [] OTHER -> "free"
                /\ request_map' = rem.map
                /\ reader_held' = [reader_held EXCEPT !.completer = rem.completer]
                /\ handles' = IF rem.completer = NoSerial THEN handles
                              ELSE [handles EXCEPT ![rem.completer].state = "removed"]
    /\ UNCHANGED <<next_id, caller_pc, caller_id, core_inbox, stdout, events, noise,
                   rogue, parse_errors, shutdown_vars>>
    /\ UNCHANGED <<cache_vars, iter_vars, screen_vars>>

\* the reader thread, the end of the statement that removed the completer:
\* the guard is dropped
ReaderUnlock ==
    /\ reader_pc = "unlock"
    /\ lock' = drop_guard(lock)
    /\ reader_pc' = "complete"
    /\ UNCHANGED <<request_map, next_id, caller_pc, caller_id, handles, core_inbox,
                   stdout, reader_held, events, noise,
                   rogue, parse_errors, shutdown_vars>>
    /\ UNCHANGED <<cache_vars, iter_vars, screen_vars>>

\* the reader thread, completer.send(res): the future of the request resolves
ReaderComplete ==
    /\ reader_pc = "complete"
    /\ handles' = [handles EXCEPT ![reader_held.completer].state = "resolved",
                                  ![reader_held.completer].payload = reader_held.res]
    /\ reader_held' = NoHeld
    /\ reader_pc' = "read"
    /\ UNCHANGED <<request_map, next_id, lock, caller_pc, caller_id, core_inbox,
                   stdout, events, noise,
                   rogue, parse_errors, shutdown_vars>>
    /\ UNCHANGED <<cache_vars, iter_vars, screen_vars>>

\* the reader thread, the end of the stream: the child exited and every line
\* was read
ReaderEof ==
    /\ reader_pc = "read"
    /\ stdout = <<>>
    /\ child = "exited"
    /\ reader_pc' = "stopped"
    /\ UNCHANGED <<request_map, next_id, lock, caller_pc, caller_id, handles,
                   core_inbox, stdout, reader_held, events, noise,
                   rogue, parse_errors, shutdown_vars>>
    /\ UNCHANGED <<cache_vars, iter_vars, screen_vars>>

\* Editor::run, the quit key: the loop over the events ends, the receiver is
\* dropped and the editor, which run took by value, goes out of scope
Quit ==
    /\ main_pc = "run"
    /\ caller_pc = "idle"
    /\ main_pc' = "drop"
    /\ dropping' = drop_order
    /\ UNCHANGED <<stdin, child, terminal>>
    /\ UNCHANGED <<request_map, next_id, lock, caller_pc, caller_id, handles,
                   core_inbox, stdout, reader_pc, reader_held, events, noise,
                   rogue, parse_errors>>
    /\ UNCHANGED <<cache_vars, iter_vars, screen_vars>>

\* Drop for Core, self.stdin.take().unwrap(): the write handle is closed;
\* nothing is written to the child
DropCoreClose ==
    /\ main_pc = "drop"
    /\ dropping # <<>>
    /\ Head(dropping) = "core"
    /\ stdin = "Some"
    /\ stdin' = "None"
    /\ UNCHANGED <<main_pc, dropping, child, terminal>>
    /\ UNCHANGED <<request_map, next_id, lock, caller_pc, caller_id, handles,
                   core_inbox, stdout, reader_pc, reader_held, events, noise,
                   rogue, parse_errors>>
    /\ UNCHANGED <<cache_vars, iter_vars, screen_vars>>

\* Drop for Core, self.process.wait(): returns once the child has exited
DropCoreWait ==
    /\ main_pc = "drop"
    /\ dropping # <<>>
    /\ Head(dropping) = "core"
    /\ stdin = "None"
    /\ child = "exited"
    /\ dropping' = Tail(dropping)
    /\ UNCHANGED <<main_pc, stdin, child, terminal>>
    /\ UNCHANGED <<request_map, next_id, lock, caller_pc, caller_id, handles,
                   core_inbox, stdout, reader_pc, reader_held, events, noise,
                   rogue, parse_errors>>
    /\ UNCHANGED <<cache_vars, iter_vars, screen_vars>>

\* the drop of a field of Editor that holds no resource
DropPlain ==
    /\ main_pc = "drop"
    /\ dropping # <<>>
    /\ Head(dropping) \in {"windows", "mode"}
    /\ dropping' = Tail(dropping)
    /\ UNCHANGED <<main_pc, stdin, child, terminal>>
    /\ UNCHANGED <<request_map, next_id, lock, caller_pc, caller_id, handles,
                   core_inbox, stdout, reader_pc, reader_held, events, noise,
                   rogue, parse_errors>>
    /\ UNCHANGED <<cache_vars, iter_vars, screen_vars>>

\* the drop of Screen: AlternateScreen and RawTerminal restore the terminal
DropScreen ==
    /\ main_pc = "drop"
    /\ dropping # <<>>
    /\ Head(dropping) = "screen"
    /\ terminal' = "restored"
    /\ dropping' = Tail(dropping)
    /\ UNCHANGED <<main_pc, stdin, child>>
    /\ UNCHANGED <<request_map, next_id, lock, caller_pc, caller_id, handles,
                   core_inbox, stdout, reader_pc, reader_held, events, noise,
                   rogue, parse_errors>>
    /\ UNCHANGED <<cache_vars, iter_vars, screen_vars>>

\* run of sev, after Editor::run returned: the cursor is shown again
ShowCursor ==
    /\ main_pc = "drop"
    /\ dropping = <<>>
    /\ main_pc' = "exited"
    /\ UNCHANGED <<dropping, stdin, child, terminal>>
    /\ UNCHANGED <<request_map, next_id, lock, caller_pc, caller_id, handles,
                   core_inbox, stdout, reader_pc, reader_held, events, noise,
                   rogue, parse_errors>>
    /\ UNCHANGED <<cache_vars, iter_vars, screen_vars>>

\* the child exits once its stdin is closed
ChildExit ==
    /\ child = "running"
    /\ stdin = "None"
    /\ child' = "exited"
    /\ UNCHANGED <<main_pc, dropping, stdin, terminal>>
    /\ UNCHANGED <<request_map, next_id, lock, caller_pc, caller_id, handles,
                   core_inbox, stdout, reader_pc, reader_held, events, noise,
                   rogue, parse_errors>>
    /\ UNCHANGED <<cache_vars, iter_vars, screen_vars>>

CoreNext ==
    \/ RequestInsert
    \/ RequestLoopCheck
    \/ RequestLoopBody
    \/ RequestSend
    \/ Notify
    \/ FutureWait
    \/ EngineRespond
    \/ EngineTake
    \/ EngineNoise
    \/ ReaderLine
    \/ ReaderRemove
    \/ ReaderUnlock
    \/ ReaderComplete

\* the transport with a child that may break the protocol
RogueNext == CoreNext \/ EngineRogue

\* the transport and the end of the run
ShutdownNext ==
    \/ CoreNext
    \/ Quit
    \/ DropCoreClose
    \/ DropCoreWait
    \/ DropPlain
    \/ DropScreen
    \/ ShowCursor
    \/ ChildExit
    \/ ReaderEof

(***************************************************************************)
(* The screen (src/screen.rs): a pending buffer, the displayed buffer, the *)
(* style registry, and refresh, which writes the changed rows.             *)
(***************************************************************************)
\* Option<u64>::None of span_start and span_end, Option<Color>::None
NoSpan == -1
NoColor == "none"

\* the colours and characters of the model
Colors == {"red", "blue"}
Chars == {"a", "b"}

\* the style ids the engine applies
StyleIds == 1..MaxStyleId

\* the style ids the engine defines
DefineIds == 0..MaxDefineId

\* the text colours the theme sets: foreground and background
TextColors == {<<fg, bg>> : fg \in {NoColor, "red"}, bg \in {NoColor, "blue"}}

\* Cell::default
DefaultCell == [c |-> " ", is_reverse |-> FALSE, span_start |-> NoSpan, span_end |-> NoSpan]

\* Style::default
DefaultStyle ==
    [fg |-> NoColor, bg |-> NoColor, bold |-> FALSE, underline |-> FALSE, italic |-> FALSE]

\* the styles the engine defines
StyleSet ==
    {[DefaultStyle EXCEPT !.bold = TRUE],
     [DefaultStyle EXCEPT !.italic = TRUE, !.underline = TRUE],
     [DefaultStyle EXCEPT !.fg = "red"],
     [DefaultStyle EXCEPT !.fg = "blue", !.bg = "red", !.bold = TRUE]}

\* the strings written to the screen
StrSet == {s \in SeqsUpTo(Chars, MaxStrLen) : s # <<>> /\ s[1] = "a"}

\* Buffer::from_elem((height, width), Cell::default())
EmptyBuffer == [y \in 1..ScreenRows |-> [x \in 1..ScreenCols |-> DefaultCell]]

\* Vec::resize(new_len, Style::default())
resize(styles_, new_len) ==
    IF new_len <= Len(styles_) THEN SubSeq(styles_, 1, new_len)
    ELSE [i \in 1..new_len |-> IF i <= Len(styles_) THEN styles_[i] ELSE DefaultStyle]

\* a define_style that always resizes the table to id + 1 entries
define_style_resizing(styles_, id, style) ==
    [resize(styles_, id + 1) EXCEPT ![id + 1] = style]

\* Screen::define_style
define_style(styles_, id, style) ==
    LET grown == IF id >= Len(styles_) THEN resize(styles_, id + 1) ELSE styles_
    IN  [grown EXCEPT ![id + 1] = style]

\* Screen::apply_style: the markers are set where the cells exist
apply_style(buf_, y, x, id, n) ==
    LET row == buf_[y + 1]
        row1 == IF x < Len(row) THEN [row EXCEPT ![x + 1].span_start = id] ELSE row
        row2 == IF x + n < Len(row) THEN [row1 EXCEPT ![x + n + 1].span_end = id] ELSE row1
    IN  [buf_ EXCEPT ![y + 1] = row2]

\* Screen::write_str: each cell is replaced by a default cell with the
\* character; the index panics past the end of the row
write_str(buf_, y, x, s) ==
    IF x + Len(s) > Len(buf_[y + 1])
    THEN [buf |-> buf_, panic |-> TRUE]
    ELSE [buf |-> [buf_ EXCEPT ![y + 1] =
                    [i \in 1..Len(@) |->
                        IF i > x /\ i <= x + Len(s)
                        THEN [DefaultCell EXCEPT !.c = s[i - x]] ELSE @[i]]],
          panic |-> FALSE]

\* Screen::draw_cursor
draw_cursor(buf_, y, x) == [buf_ EXCEPT ![y + 1][x + 1].is_reverse = TRUE]

\* Screen::erase
erase(buf_) == [y \in 1..Len(buf_) |-> [x \in 1..Len(buf_[y]) |-> DefaultCell]]

\* Screen::erase_line
erase_line(buf_, line) == [buf_ EXCEPT ![line + 1] = [x \in 1..Len(@) |-> DefaultCell]]

\* what refresh writes: an escape sequence or a character
Tok(t, n, c) == [t |-> t, n |-> n, c |-> c]
Goto(i) == Tok("Goto", i, "")
CurrentLine == Tok("CurrentLine", 0, "")
Fg(color) == Tok("Fg", 0, color)
Bg(color) == Tok("Bg", 0, color)
Sgr(name) == Tok(name, 0, "")
Char(c) == Tok("Char", 0, c)

\* the attributes with a nesting counter, their enable and disable sequences
Attrs == {"bold", "italic", "underline"}
Enable(attr) ==
    CASE attr = "bold" -> Sgr("Bold") [] attr = "italic" -> Sgr("Italic")
      [] attr = "underline" -> Sgr("Underline")
Disable(attr) ==
    CASE attr = "bold" -> Sgr("NoFaint") [] attr = "italic" -> Sgr("NoItalic")
      [] attr = "underline" -> Sgr("NoUnderline")

\* the state of refresh while it writes: the output so far, the nesting
\* counters of the row, the counter steps so far (attribute, marker, counter
\* before and after, sequence written), and "ok" or "panic"
FlushStart(out_) ==
    [out |-> out_, n |-> [a \in Attrs |-> 0], log |-> <<>>, status |-> "ok"]

emit(st, tok) == [st EXCEPT !.out = Append(@, tok)]

enable_below_two(n) == n <= 1

\* the test bold_spans == 0 before a span start
enable_needed(n) == n = 0

\* the test bold_spans == 0 after a span end
disable_needed(n) == n = 0

\* a span start of a style that has the attribute: the enable sequence when
\* the counter is 0, then counter += 1 (u32: an overflow panics in a debug
\* build and wraps in a release build)
start_attr(st, attr, debug_build) ==
    LET from == st.n[attr]
        on == enable_needed(from)
        st1 == IF on THEN emit(st, Enable(attr)) ELSE st
        to == (from + 1) % U32Mod
        entry == [attr |-> attr, by |-> "start", from |-> from, to |-> to,
                  wrote |-> IF on THEN "enable" ELSE "none"]
    IN  IF from + 1 >= U32Mod /\ debug_build
        THEN [st1 EXCEPT !.status = "panic"]
        ELSE [st1 EXCEPT !.n[attr] = to, !.log = Append(@, entry)]

\* a span end of a style that has the attribute: counter -= 1 (u32: an
\* underflow panics in a debug build and wraps in a release build), then the
\* disable sequence when the counter is 0
end_attr(st, attr, debug_build) ==
    LET from == st.n[attr]
        to == (from + U32Mod - 1) % U32Mod
        off == disable_needed(to)
        entry == [attr |-> attr, by |-> "end", from |-> from, to |-> to,
                  wrote |-> IF off THEN "disable" ELSE "none"]
        st1 == [st EXCEPT !.n[attr] = to, !.log = Append(@, entry)]
    IN  IF from = 0 /\ debug_build
        THEN [st EXCEPT !.status = "panic"]
        ELSE IF off THEN emit(st1, Disable(attr)) ELSE st1

\* the end of a row: the disable sequence of every attribute whose counter
\* is above 0
close_attr(st, attr) ==
    IF st.n[attr] > 0
    THEN [emit(st, Disable(attr)) EXCEPT !.log = Append(@,
            [attr |-> attr, by |-> "row_end", from |-> st.n[attr], to |-> st.n[attr],
             wrote |-> "disable"])]
    ELSE st

\* the value of f at x, with x computed once
Then(x, f(_)) == CHOOSE y \in {f(v) : v \in {x}} : TRUE

\* the writes of refresh for one cell, in the order of the code
CellSteps ==
    <<[op |-> "start_fg", attr |-> ""],
      [op |-> "start", attr |-> "bold"],
      [op |-> "start", attr |-> "italic"],
      [op |-> "start", attr |-> "underline"],
      [op |-> "end_fg", attr |-> ""],
      [op |-> "end_bg", attr |-> ""],
      [op |-> "end", attr |-> "bold"],
      [op |-> "end", attr |-> "italic"],
      [op |-> "end", attr |-> "underline"],
      [op |-> "char", attr |-> ""]>>

\* a write of the character that ignores the cursor mark
write_cell_plain(cell, st) == emit(st, Char(cell.c))

\* Screen::refresh, the character of a cell, in reverse video when the cell
\* is marked by draw_cursor
write_cell(cell, st) ==
    IF cell.is_reverse
    THEN emit(emit(emit(st, Sgr("Invert")), Char(cell.c)), Sgr("NoInvert"))
    ELSE emit(st, Char(cell.c))

\* whether a style has the attribute
has_attr(style, attr) ==
    CASE attr = "bold" -> style.bold [] attr = "italic" -> style.italic
      [] attr = "underline" -> style.underline

\* Screen::refresh, one write of a cell: the foreground of the starting
\* style; the counters of the starting style; the foreground reset of an
\* ending style with a foreground when no starting style has one, the
\* background reset of an ending style with a background when the starting
\* style has one; the counters of the ending style; the character
cell_step(step, cell, st, styles_, debug_build) ==
    LET has_start == cell.span_start # NoSpan
        has_end == cell.span_end # NoSpan
        starting == IF has_start THEN styles_[cell.span_start + 1] ELSE DefaultStyle
        ending == IF has_end THEN styles_[cell.span_end + 1] ELSE DefaultStyle
    IN  CASE step.op = "start_fg" ->
                IF has_start /\ starting.fg # NoColor THEN emit(st, Fg(starting.fg)) ELSE st
          [] step.op = "start" ->
                IF has_start /\ has_attr(starting, step.attr)
                THEN start_attr(st, step.attr, debug_build) ELSE st
          [] step.op = "end_fg" ->
                IF has_end /\ ending.fg # NoColor /\ ~(has_start /\ starting.fg # NoColor)
                THEN emit(st, Sgr("FgReset")) ELSE st
          [] step.op = "end_bg" ->
                IF has_end /\ ending.bg # NoColor /\ (has_start /\ starting.bg # NoColor)
                THEN emit(st, Sgr("BgReset")) ELSE st
          [] step.op = "end" ->
                IF has_end /\ has_attr(ending, step.attr)
                THEN end_attr(st, step.attr, debug_build) ELSE st
          [] step.op = "char" -> write_cell(cell, st)

RECURSIVE cell_steps(_, _, _, _, _)
\* Screen::refresh, the writes of a cell from the k-th on, up to a panic
cell_steps(k, cell, st, styles_, debug_build) ==
    IF k > Len(CellSteps) \/ st.status # "ok" THEN st
    ELSE Then(cell_step(CellSteps[k], cell, st, styles_, debug_build),
              LAMBDA s : cell_steps(k + 1, cell, s, styles_, debug_build))

\* Screen::refresh, one cell: the styles of the markers are looked up (the
\* index panics for an id the registry does not hold), then the writes
flush_cell(cell, st, styles_, debug_build) ==
    IF \/ cell.span_start # NoSpan /\ cell.span_start >= Len(styles_)
       \/ cell.span_end # NoSpan /\ cell.span_end >= Len(styles_)
    THEN [st EXCEPT !.status = "panic"]
    ELSE cell_steps(1, cell, st, styles_, debug_build)

RECURSIVE flush_cells(_, _, _, _, _)
\* Screen::refresh, the loop over the cells of a row from column k on
flush_cells(row, k, st, styles_, debug_build) ==
    IF k > Len(row) \/ st.status # "ok" THEN st
    ELSE Then(flush_cell(row[k], st, styles_, debug_build),
              LAMBDA s : flush_cells(row, k + 1, s, styles_, debug_build))

\* Screen::refresh, the end of a row: bold, italic and underline are closed
close_attrs(st) ==
    Then(close_attr(st, "bold"),
         LAMBDA s1 : Then(close_attr(s1, "italic"),
                          LAMBDA s2 : close_attr(s2, "underline")))

row_never_changed(row, cur_row) == FALSE

\* the comparison of a row with the displayed row
row_changed(row, cur_row) == row # cur_row

\* Screen::refresh, one row: a row equal to the displayed row is skipped; a
\* changed row is positioned and cleared, its cells are written with the
\* counters starting at 0, and what is still on is closed
flush_row(buf_, cur_buf_, i, st, styles_, debug_build) ==
    IF ~row_changed(buf_[i], cur_buf_[i]) THEN st
    ELSE Then([emit(emit(st, Goto(i)), CurrentLine) EXCEPT !.n = [a \in Attrs |-> 0]],
              LAMBDA s0 : Then(flush_cells(buf_[i], 1, s0, styles_, debug_build),
                               LAMBDA s1 : IF s1.status # "ok" THEN s1
                                           ELSE close_attrs(s1)))

RECURSIVE flush_rows(_, _, _, _, _, _)
\* Screen::refresh, the loop over the rows from row i on
flush_rows(buf_, cur_buf_, i, st, styles_, debug_build) ==
    IF i > Len(buf_) \/ st.status # "ok" THEN st
    ELSE Then(flush_row(buf_, cur_buf_, i, st, styles_, debug_build),
              LAMBDA s : flush_rows(buf_, cur_buf_, i + 1, s, styles_, debug_build))

\* Screen::refresh, the text colour written before the rows
text_color_prefix(text_color_) ==
    (IF text_color_[1] # NoColor THEN <<Fg(text_color_[1])>> ELSE <<>>)
    \o (IF text_color_[2] # NoColor THEN <<Bg(text_color_[2])>> ELSE <<>>)

\* Screen::refresh without I/O errors: everything it writes, the counter
\* steps it takes, and whether it panicked
refresh(buf_, cur_buf_, styles_, text_color_, debug_build) ==
    Then(FlushStart(text_color_prefix(text_color_)),
         LAMBDA st : flush_rows(buf_, cur_buf_, 1, st, styles_, debug_build))

\* Screen::new_from_write: both buffers blank, the reserved styles default
InitScreen ==
    /\ buf = EmptyBuffer
    /\ cur_buf = EmptyBuffer
    /\ styles = [i \in 1..RESERVED_STYLES |-> DefaultStyle]
    /\ text_color = <<NoColor, NoColor>>
    /\ out = <<>>
    /\ log = <<>>
    /\ screen_result = "none"
    /\ calls = 0
    /\ setups = 0
    /\ flushes = 0
    /\ spans = {}

\* the screen can be used: no call panicked
Usable == screen_result # "panic"

wrote_through ==
    /\ out' = <<CurrentLine>>
    /\ log' = <<>>
    /\ screen_result' = "none"

\* a call other than refresh returned: it wrote nothing to the terminal and
\* has no result
Returned ==
    /\ out' = <<>>
    /\ log' = <<>>
    /\ screen_result' = "none"

\* Screen::define_style with a style the engine defines
DefineStyle ==
    /\ Usable
    /\ setups < MaxSetups
    /\ \E id \in DefineIds, style \in StyleSet :
        styles' = define_style(styles, id, style)
    /\ setups' = setups + 1
    /\ Returned
    /\ UNCHANGED <<buf, cur_buf, text_color, calls, flushes>>
    /\ UNCHANGED <<spans, cache_vars, iter_vars, core_vars>>

\* the part of a span of n cells from column x of row y that lies on the
\* screen: the row, the style id, the first column and the column after the
\* last; nothing when the span starts past the last column
visible(y, x, id, n) ==
    IF x >= ScreenCols THEN {}
    ELSE {[y |-> y, id |-> id, from |-> x,
           to |-> IF x + n < ScreenCols THEN x + n ELSE ScreenCols]}

\* Screen::apply_style: a span of n cells from column x of row y; the span
\* may start or end past the last column
ApplyStyle ==
    /\ Usable
    /\ calls < MaxCalls
    /\ \E y \in 0..(ScreenRows - 1), x \in 0..ScreenCols, id \in StyleIds,
          n \in 1..ScreenCols :
        /\ buf' = apply_style(buf, y, x, id, n)
        /\ spans' = spans \cup visible(y, x, id, n)
    /\ calls' = calls + 1
    /\ Returned
    /\ UNCHANGED <<cur_buf, styles, text_color, setups, flushes>>
    /\ UNCHANGED <<cache_vars, iter_vars, core_vars>>

\* Screen::write_str: a string that runs past the end of the row panics
WriteStr ==
    /\ Usable
    /\ calls < MaxCalls
    /\ \E y \in 0..(ScreenRows - 1), x \in 0..(ScreenCols - 1), s \in StrSet :
        LET w == write_str(buf, y, x, s)
        IN  /\ buf' = w.buf
            /\ screen_result' = IF w.panic THEN "panic" ELSE "none"
    /\ out' = <<>>
    /\ log' = <<>>
    /\ calls' = calls + 1
    /\ UNCHANGED <<cur_buf, styles, text_color, setups, flushes>>
    /\ UNCHANGED <<spans, cache_vars, iter_vars, core_vars>>

\* Screen::set_text_color
SetTextColor ==
    /\ Usable
    /\ setups < MaxSetups
    /\ \E color \in TextColors : text_color' = color
    /\ setups' = setups + 1
    /\ Returned
    /\ UNCHANGED <<buf, cur_buf, styles, calls, flushes>>
    /\ UNCHANGED <<spans, cache_vars, iter_vars, core_vars>>

\* Screen::draw_cursor on a cell of the screen
DrawCursor ==
    /\ Usable
    /\ calls < MaxCalls
    /\ \E y \in 0..(ScreenRows - 1), x \in 0..(ScreenCols - 1) :
        buf' = draw_cursor(buf, y, x)
    /\ calls' = calls + 1
    /\ Returned
    /\ UNCHANGED <<cur_buf, styles, text_color, setups, flushes>>
    /\ UNCHANGED <<spans, cache_vars, iter_vars, core_vars>>

\* Screen::erase
Erase ==
    /\ Usable
    /\ calls < MaxCalls
    /\ buf' = erase(buf)
    /\ calls' = calls + 1
    /\ Returned
    /\ UNCHANGED <<cur_buf, styles, text_color, setups, flushes>>
    /\ UNCHANGED <<spans, cache_vars, iter_vars, core_vars>>

\* Screen::erase_line
EraseLine ==
    /\ Usable
    /\ calls < MaxCalls
    /\ \E line \in 0..(ScreenRows - 1) : buf' = erase_line(buf, line)
    /\ calls' = calls + 1
    /\ Returned
    /\ UNCHANGED <<cur_buf, styles, text_color, setups, flushes>>
    /\ UNCHANGED <<spans, cache_vars, iter_vars, core_vars>>

commit_always(result, buf_, cur_buf_) == buf_

\* Screen::refresh, its end: out.flush()? returns early on an error, and so
\* does every write before it; self.cur_buf = self.buf.clone() is reached
\* only when all of them succeeded
commit(result, buf_, cur_buf_) == IF result = "Ok" THEN buf_ ELSE cur_buf_

\* where the terminal fails during a refresh: nowhere, at the first write
\* (nothing reaches the terminal), or at the final flush (everything was
\* written)
IoFailures == {"none", "first", "flush"}

\* Screen::refresh: out is what the call wrote and log the counter steps it
\* took. A panic comes before a failure of the final flush
Refresh ==
    /\ screen_result # "panic"
    /\ flushes < MaxFlushes
    /\ flushes' = flushes + 1
    /\ \E debug_build \in BOOLEAN, io_failure \in IoFailures :
        IF io_failure = "first"
        THEN /\ out' = <<>>
             /\ log' = <<>>
             /\ screen_result' = "Err"
             /\ cur_buf' = commit("Err", buf, cur_buf)
        ELSE \E r \in {refresh(buf, cur_buf, styles, text_color, debug_build)} :
             \E result \in {IF r.status = "panic" THEN "panic"
                            ELSE IF io_failure = "flush" THEN "Err" ELSE "Ok"} :
                 /\ out' = r.out
                 /\ log' = r.log
                 /\ screen_result' = result
                 /\ cur_buf' = commit(result, buf, cur_buf)
    /\ UNCHANGED <<buf, styles, text_color, calls, setups>>
    /\ UNCHANGED <<spans, cache_vars, iter_vars, core_vars>>

\* the calls on a screen, in any order
ScreenNext ==
    \/ DefineStyle
    \/ ApplyStyle
    \/ WriteStr
    \/ SetTextColor
    \/ DrawCursor
    \/ Erase
    \/ EraseLine
    \/ Refresh

(***************************************************************************)
(* LineCache: the end-of-line test                                         *)
(***************************************************************************)
\* the line of tests::is_eol
HelloLine == 0

\* "Hello, world!\n"
HelloText ==
    <<"H", "e", "l", "l", "o", ",", " ", "w", "o", "r", "l", "d", "!", "\n">>

\* Line.text of a line, its characters in order: the line of the test; a
\* line that ends with the line terminator (odd values); the last line of a
\* file that does not end with one (even values)
text(line) ==
    IF line = HelloLine THEN HelloText
    ELSE [i \in 1..line |-> IF i = line /\ line % 2 = 1 THEN "\n" ELSE "a"]

\* Iterator::nth
nth(seq, n) == IF n < Len(seq) THEN <<seq[n + 1]>> ELSE <<>>

\* an end-of-line test that takes the last column of the text for the end
is_eol_last_column(self, coordinate) ==
    /\ nth(self.lines, coordinate.y) # <<>>
    /\ coordinate.x + 1 = Len(text(nth(self.lines, coordinate.y)[1]))

\* LineCache::is_eol
is_eol(self, coordinate) ==
    LET line == nth(self.lines, coordinate.y)
        c == IF line = <<>> THEN <<>> ELSE nth(text(line[1]), coordinate.x)
    IN  IF c = <<>> THEN FALSE ELSE c[1] = "\n"

\* screen::Coordinate
Coordinates == [x : 0..MaxCol, y : 0..MaxLines]

NoCoordinate == [x |-> -1, y |-> -1]

\* the cache of tests::is_eol
HelloCache == [invalid_before |-> 0, lines |-> <<HelloLine>>, invalid_after |-> 0]

InitEol ==
    /\ eol_coordinate = NoCoordinate
    /\ eol_result = FALSE

\* Editor::move_right -> LineCache::is_eol
IsEol ==
    /\ \E coordinate \in Coordinates :
        /\ eol_coordinate' = coordinate
        /\ eol_result' = is_eol(cache, coordinate)
    /\ UNCHANGED <<line_styles, style_triples, last_span_end, span_items, span_status>>
    /\ UNCHANGED <<iter_range, iter_result, cache_vars, core_vars, screen_vars, ui_vars>>

(***************************************************************************)
(* Editor: the views and the control loop                                  *)
(***************************************************************************)
\* the view ids the child may give a new view
ViewIds == 1..MaxViewId

\* Option<ViewId>::None, and a future that is not resolved
NoView == 0

\* termion Key: Enter is Char('\n'); Left stands for the keys no mode handles
Keys == {"\n", "Esc", "Backspace", "q", "w", ":", "i", "Left"}

\* Key::Char(c)
CharKeys == {"\n", "q", "w", ":", "i"}

\* Mode::Normal, Mode::Insert, Mode::Command(line)
Normal == [kind |-> "Normal", buf |-> <<>>]
Insert == [kind |-> "Insert", buf |-> <<>>]
Command(line) == [kind |-> "Command", buf |-> line]

\* CommandLine::new
CommandLine_new == <<>>

\* CommandLine::insert
CommandLine_insert(line, c) == Append(line, c)

\* CommandLine::delete: String::pop
CommandLine_delete(line) == IF line = <<>> THEN line ELSE SubSeq(line, 1, Len(line) - 1)

\* CommandLine::command
command(line) == line

\* the result of a key handler: the mode it leaves, whether it returned
\* Some(ExitRequest), and whether it made a call whose failure is unwrapped
Handled(m, exit, io) == [mode |-> m, exit |-> exit, io |-> io]

\* Editor::handle_normal_key; w is one of the keys that move the cursor
handle_normal_key(self, key) ==
    CASE key = "w" -> Handled(self.mode, FALSE, self.active_view # NoView)
      [] key = "i" -> Handled(Insert, FALSE, FALSE)
      [] key = ":" -> Handled(Command(CommandLine_new), FALSE, TRUE)
      [] OTHER -> Handled(self.mode, FALSE, FALSE)

\* Editor::handle_insert_key
handle_insert_key(self, key) ==
    CASE key \in CharKeys -> Handled(self.mode, FALSE, self.active_view # NoView)
      [] key = "Backspace" -> Handled(self.mode, FALSE, self.active_view # NoView)
      [] key = "Esc" -> Handled(Normal, FALSE, FALSE)
      [] OTHER -> Handled(self.mode, FALSE, FALSE)

\* Editor::handle_input with Esc taken for Enter in the test of the command
exit_request_on_either(key, line) == command(line) = <<"q">>

\* Editor::handle_input, Command mode on Enter or Esc: whether the handler
\* returns Some(ExitRequest)
exit_request(key, line) == key = "\n" /\ command(line) = <<"q">>

\* Editor::handle_input
handle_input(self, key) ==
    CASE self.mode.kind = "Normal" -> handle_normal_key(self, key)
      [] self.mode.kind = "Insert" -> handle_insert_key(self, key)
      [] self.mode.kind = "Command" ->
            CASE key \in {"\n", "Esc"} ->
                    IF exit_request(key, self.mode.buf)
                    THEN Handled(self.mode, TRUE, FALSE)
                    ELSE Handled(Normal, FALSE, TRUE)
              [] key \in CharKeys \ {"\n"} ->
                    Handled(Command(CommandLine_insert(self.mode.buf, key)), FALSE, TRUE)
              [] key = "Backspace" ->
                    Handled(Command(CommandLine_delete(self.mode.buf)), FALSE, TRUE)
              [] OTHER -> Handled(self.mode, FALSE, FALSE)

\* the notifications of the protocol: Update and ScrollTo name a view, Other
\* stands for the kinds that need no window (DefStyle, ThemeChanged, ...)
NotificationKinds == {"Update", "ScrollTo", "Other"}

Notification(kind, view_id) == [kind |-> kind, view_id |-> view_id]

\* no event handled yet
NoEvent == [src |-> "none"]

\* Editor::new up to the call of new_view
InitEditor ==
    /\ editor_pc = "new"
    /\ mode = Normal
    /\ windows = {}
    /\ active_view = NoView
    /\ view_request = "none"
    /\ engine_view = NoView
    /\ engine_pipe = <<>>
    /\ view_future = NoView
    /\ notifications = <<>>
    /\ emitted = 0
    /\ lookup = "none"
    /\ last_event = NoEvent

\* Editor::new_view, self.core.new_view(path): the request is written to the
\* child; wait() blocks the main thread
NewViewRequest ==
    /\ editor_pc = "new"
    /\ editor_pc' = "wait"
    /\ view_request' = "sent"
    /\ UNCHANGED <<mode, windows, active_view, engine_view, engine_pipe, view_future,
                   notifications, emitted, lookup, last_event>>
    /\ UNCHANGED non_editor_vars

\* the child answers the new_view request with the id of the new view
EngineNewView ==
    /\ view_request = "sent"
    /\ \E view_id \in ViewIds :
        /\ engine_view' = view_id
        /\ engine_pipe' = Append(engine_pipe, [kind |-> "response", view_id |-> view_id])
    /\ view_request' = "answered"
    /\ UNCHANGED <<editor_pc, mode, windows, active_view, view_future, notifications,
                   emitted, lookup, last_event>>
    /\ UNCHANGED non_editor_vars

\* the child writes a notification: Update and ScrollTo for a view it has
\* answered the new_view request for, the other kinds at any time
EngineNotification ==
    /\ emitted < MaxNotifications
    /\ emitted' = emitted + 1
    /\ \E kind \in NotificationKinds :
        /\ kind \in {"Update", "ScrollTo"} => engine_view # NoView
        /\ engine_pipe' = Append(engine_pipe,
                                 Notification(kind, IF kind = "Other" THEN NoView
                                                    ELSE engine_view))
    /\ UNCHANGED <<editor_pc, mode, windows, active_view, view_request, engine_view,
                   view_future, notifications, lookup, last_event>>
    /\ UNCHANGED non_editor_vars

\* the reader thread of Core::spawn, one line: a notification is sent to the
\* channel of the control loop, a response completes the future of its request
ReaderForward ==
    /\ engine_pipe # <<>>
    /\ engine_pipe' = Tail(engine_pipe)
    /\ IF Head(engine_pipe).kind = "response"
       THEN /\ view_future' = Head(engine_pipe).view_id
            /\ UNCHANGED notifications
       ELSE /\ notifications' = Append(notifications, Head(engine_pipe))
            /\ UNCHANGED view_future
    /\ UNCHANGED <<editor_pc, mode, windows, active_view, view_request, engine_view,
                   emitted, lookup, last_event>>
    /\ UNCHANGED non_editor_vars

\* Editor::new_view after wait() returned: the view is added to the layout,
\* the scroll notification written (an I/O error is returned and unwrapped
\* by Editor::new), the window inserted and the view made the active one;
\* Editor::run follows
NewViewInsert ==
    /\ editor_pc = "wait"
    /\ view_future # NoView
    /\ \E failed \in BOOLEAN :
        IF failed
        THEN /\ editor_pc' = "panic"
             /\ UNCHANGED <<windows, active_view>>
        ELSE /\ editor_pc' = "run"
             /\ windows' = windows \cup {view_future}
             /\ active_view' = view_future
    /\ UNCHANGED <<mode, view_request, engine_view, engine_pipe, view_future,
                   notifications, emitted, lookup, last_event>>
    /\ UNCHANGED non_editor_vars

\* Editor::run, recv(input, key): handle_input; the loop breaks on
\* Some(ExitRequest); a failed call that the handler unwraps panics before
\* the mode is assigned
HandleInput(key) ==
    /\ editor_pc = "run"
    /\ ~(/\ mode.kind = "Command"
         /\ key \in CharKeys \ {"\n"}
         /\ Len(mode.buf) >= MaxCmdLen)
    /\ \E r \in {handle_input([mode |-> mode, active_view |-> active_view], key)} :
        \E failed \in (IF r.io THEN BOOLEAN ELSE {FALSE}) :
            /\ editor_pc' = CASE r.exit -> "exited"
                              [] failed -> "panic"
                              [] OTHER -> "run"
            /\ mode' = IF failed THEN mode ELSE r.mode
    /\ last_event' = [src |-> "input", key |-> key, mode |-> mode]
    /\ UNCHANGED <<windows, active_view, view_request, engine_view, engine_pipe,
                   view_future, notifications, emitted, lookup>>
    /\ UNCHANGED non_editor_vars

\* Editor::handle_notification taking notifications while new_view waits
HandleNotification_while_waiting ==
    /\ editor_pc \in {"wait", "run"}
    /\ notifications # <<>>
    /\ notifications' = Tail(notifications)
    /\ last_event' = [src |-> "notification", kind |-> Head(notifications).kind,
                      view_id |-> Head(notifications).view_id]
    /\ IF Head(notifications).kind \in {"Update", "ScrollTo"}
       THEN IF Head(notifications).view_id \in windows
            THEN /\ lookup' = "found"
                 /\ UNCHANGED editor_pc
            ELSE /\ lookup' = "missing"
                 /\ editor_pc' = "panic"
       ELSE UNCHANGED <<editor_pc, lookup>>
    /\ UNCHANGED <<mode, windows, active_view, view_request, engine_view, engine_pipe,
                   view_future, emitted>>
    /\ UNCHANGED non_editor_vars

\* Editor::run, recv(notifications, notification): handle_notification;
\* Editor::update and Editor::scroll_to unwrap the window of the view, then
\* update, render and refresh, whose failures are unwrapped too
HandleNotification ==
    /\ editor_pc = "run"
    /\ notifications # <<>>
    /\ notifications' = Tail(notifications)
    /\ last_event' = [src |-> "notification", kind |-> Head(notifications).kind,
                      view_id |-> Head(notifications).view_id]
    /\ IF Head(notifications).kind \in {"Update", "ScrollTo"}
       THEN IF Head(notifications).view_id \in windows
            THEN /\ lookup' = "found"
                 /\ \E failed \in BOOLEAN :
                        editor_pc' = IF failed THEN "panic" ELSE "run"
            ELSE /\ lookup' = "missing"
                 /\ editor_pc' = "panic"
       ELSE UNCHANGED <<editor_pc, lookup>>
    /\ UNCHANGED <<mode, windows, active_view, view_request, engine_view, engine_pipe,
                   view_future, emitted>>
    /\ UNCHANGED non_editor_vars

(***************************************************************************)
(* Line: the style spans of a line                                         *)
(***************************************************************************)
\* `as usize` and `as u64` of an integer: the integer modulo 2^64
as_usize(n) == n % UsizeMod

\* the largest i64
I64Max == (UsizeMod - 1) \div 2

\* the smallest i64
I64Min == -(UsizeMod \div 2)

\* `as i64` of a usize: the values above the largest i64 are read as negative
as_i64(n) == IF n > I64Max THEN n - UsizeMod ELSE n

\* a start that is not counted from the end of the span before
span_start_absolute(last_span_end_, start_index) == as_usize(start_index)

\* StyleIterator::next: ((self.last_span_end as i64) + start_index) as usize
span_start(last_span_end_, start_index) ==
    as_usize(as_i64(last_span_end_) + start_index)

\* an end that does not count the length of the span
span_end_at_start(span_start_, length) == span_start_

\* StyleIterator::next: span_start + length
span_end(span_start_, length) == (span_start_ + length) % UsizeMod

\* StyleSpan
StyleSpan(id, start, length) == [id |-> id, start |-> start, length |-> length]

NoStyleSpan == [id |-> 0, start |-> 0, length |-> 0]

\* Line::iter_style_spans
iter_style_spans(styles_) == [style_triples |-> styles_, last_span_end |-> 0]

\* StyleIterator::next: the next chunk of up to three numbers is taken; a
\* chunk of fewer than three panics on the index; the additions panic on
\* overflow in a debug build and wrap in a release build
style_iterator_next(it, debug_build) ==
    IF it.style_triples = <<>>
    THEN [it |-> it, item |-> NoStyleSpan, status |-> "done"]
    ELSE LET n == Min(3, Len(it.style_triples))
             triple == SubSeq(it.style_triples, 1, n)
             rest == SubSeq(it.style_triples, n + 1, Len(it.style_triples))
         IN  IF n < 3
             THEN [it |-> [it EXCEPT !.style_triples = rest],
                   item |-> NoStyleSpan, status |-> "panic"]
             ELSE LET start_index == triple[1]
                      length == as_usize(triple[2])
                      id == as_usize(triple[3])
                      sum == as_i64(it.last_span_end) + start_index
                      start == span_start(it.last_span_end, start_index)
                      overflow == \/ sum < I64Min
                                  \/ sum > I64Max
                                  \/ start + length >= UsizeMod
                  IN  IF debug_build /\ overflow
                      THEN [it |-> [it EXCEPT !.style_triples = rest],
                            item |-> NoStyleSpan, status |-> "panic"]
                      ELSE [it |-> [style_triples |-> rest,
                                    last_span_end |-> span_end(start, length)],
                            item |-> StyleSpan(id, start, length),
                            status |-> "ok"]

\* a style triple as the engine sends it: the start counted from the end of
\* the span before, the length, the style id
TripleSet ==
    {<<d, l, id>> : d \in (-MaxDelta)..MaxDelta, l \in 0..MaxSpanLen, id \in StyleIds}

RECURSIVE StartsInLine(_, _)
\* whether no span of the triples starts before the first column, the span
\* before them ending at end
StartsInLine(ts, end) ==
    \/ ts = <<>>
    \/ /\ end + ts[1][1] >= 0
       /\ StartsInLine(Tail(ts), end + ts[1][1] + ts[1][2])

RECURSIVE Flat(_)
\* the numbers of a sequence of triples
Flat(ts) == IF ts = <<>> THEN <<>> ELSE ts[1] \o Flat(Tail(ts))

\* the styles of the line "int main() {}\n" of tests::style_spans
TestStyles == <<0, 3, 2, 0, 1, 3, 0, 4, 4, -1, 3, 2>>

\* Line.styles as the engine sends them
StylesSet ==
    {Flat(ts) : ts \in {t \in SeqsUpTo(TripleSet, MaxTriples) : StartsInLine(t, 0)}}
        \cup {TestStyles}

(***************************************************************************)
(* Window: the scroll offsets and the rendering of the visible lines       *)
(***************************************************************************)
\* u16 addition and subtraction: the wrapped value, and whether the exact
\* result leaves the range (a panic in a debug build)
u16_add(a, b) == [v |-> (a + b) % U16Mod, overflow |-> a + b >= U16Mod]
u16_sub(a, b) == [v |-> (a - b + U16Mod) % U16Mod, overflow |-> a < b]

\* `as u16` of an integer
as_u16(n) == n % U16Mod

\* Line: the text, the offsets of the cursors, the style triples
Line(text_, cursors, styles_) == [text |-> text_, cursors |-> cursors, styles |-> styles_]

\* the lines of a buffer: an empty line, a line shorter than the window
\* with a cursor and a span at its start, and lines longer than the window
\* with cursors and spans inside and past the visible columns
WindowLines ==
    {Line(<<"\n">>, <<>>, <<>>),
     Line(<<"a", "\n">>, <<0>>, <<0, 1, 1>>),
     Line(<<"a", "b", "a", "\n">>, <<3>>, <<1, 3, 1>>),
     Line(<<"a", "b", "a", "\n">>, <<0, 2>>, <<0, 1, 1, 1, 3, 2>>)}

\* the caches a window is rendered with: every line is known, as in the
\* caches new_from_lines builds
WindowCaches ==
    [invalid_before : {0},
     lines : SeqsUpTo(WindowLines, MaxWinLines),
     invalid_after : {0}]

\* Window: the line cache, the offsets, the size and the cursor
Window(line_cache, row_offset, col_offset, cursor) ==
    [row_offset |-> row_offset, col_offset |-> col_offset, line_cache |-> line_cache,
     rows |-> ScreenRows, cols |-> ScreenCols, cursor |-> cursor]

\* WindowMap::new: the window has the size of the terminal, as the screen
NewWindow == Window(EmptyCache, 0, 0, [x |-> 0, y |-> 0])

\* Window::scroll_to, the column offset; a failed addition or subtraction
\* panics in a debug build and wraps in a release build
scroll_cols(self, debug_build) ==
    LET right == u16_add(self.col_offset, self.cols)
        moved == u16_sub(self.cursor.x, self.cols - 1)
    IN  IF debug_build /\ right.overflow
        THEN [window |-> self, status |-> "overflow"]
        ELSE IF self.cursor.x >= right.v
        THEN IF debug_build /\ moved.overflow
             THEN [window |-> self, status |-> "overflow"]
             ELSE [window |-> [self EXCEPT !.col_offset = moved.v], status |-> "ok"]
        ELSE IF self.cursor.x < self.col_offset
        THEN [window |-> [self EXCEPT !.col_offset = self.cursor.x], status |-> "ok"]
        ELSE [window |-> self, status |-> "ok"]

\* Window::scroll_to, the row offset
scroll_rows(self, debug_build) ==
    LET below == u16_add(self.row_offset, self.rows)
        bottom == u16_sub(below.v, 1)
        moved == u16_sub(self.cursor.y, self.rows - 1)
    IN  IF debug_build /\ (below.overflow \/ bottom.overflow)
        THEN [window |-> self, status |-> "overflow"]
        ELSE IF self.cursor.y > bottom.v
        THEN IF debug_build /\ moved.overflow
             THEN [window |-> self, status |-> "overflow"]
             ELSE [window |-> [self EXCEPT !.row_offset = moved.v], status |-> "ok"]
        ELSE IF self.cursor.y < self.row_offset
        THEN [window |-> [self EXCEPT !.row_offset = self.cursor.y], status |-> "ok"]
        ELSE [window |-> self, status |-> "ok"]

\* Window::scroll_to
scroll_to(self, coordinate, debug_build) ==
    Then(scroll_cols([self EXCEPT !.cursor = coordinate], debug_build),
         LAMBDA r : IF r.status = "ok" THEN scroll_rows(r.window, debug_build) ELSE r)

\* str::trim_right_matches('\n')
RECURSIVE trim_right_matches(_)
trim_right_matches(text_) ==
    IF text_ # <<>> /\ text_[Len(text_)] = "\n"
    THEN trim_right_matches(SubSeq(text_, 1, Len(text_) - 1))
    ELSE text_

\* Iterator::skip and Iterator::take
skip_(seq, n) == SubSeq(seq, n + 1, Len(seq))
take(seq, n) == SubSeq(seq, 1, Min(n, Len(seq)))

\* the text of a line from the column offset to its end
visible_text_unclipped(text_, col_offset, cols) ==
    skip_(trim_right_matches(text_), col_offset)

\* Window::render, the text of a line that is written to its row
visible_text(text_, col_offset, cols) ==
    take(skip_(trim_right_matches(text_), col_offset), cols)

\* LineCache::iter_lines without a range: the lines the cache holds, in order
all_lines(self) == self.lines

\* the state of a render: the pending buffer, the cells of the screen it
\* has addressed, and "ok", "overflow" (an arithmetic panic), "index" (an
\* index of the screen out of range) or "styles" (a panic of the iterator)
Rendering(buf_, cells, status) == [buf |-> buf_, addressed |-> cells, status |-> status]

Cell(y, x) == [y |-> y, x |-> x]

InGrid(buf_, cell) == cell.y < Len(buf_) /\ cell.x < Len(buf_[cell.y + 1])

\* Screen::write_str called by render
render_write_str(st, y, x, s) ==
    LET cells == {Cell(y, x + k) : k \in 0..(Len(s) - 1)}
    IN  IF \E cell \in cells : ~InGrid(st.buf, cell)
        THEN Rendering(st.buf, st.addressed \cup cells, "index")
        ELSE Rendering(IF s = <<>> THEN st.buf ELSE write_str(st.buf, y, x, s).buf,
                       st.addressed \cup cells, "ok")

\* Screen::apply_style called by render: the row is indexed, the two cells
\* are looked up with get_mut
render_apply_style(st, id, y, x, n) ==
    IF y >= Len(st.buf)
    THEN Rendering(st.buf, st.addressed \cup {Cell(y, x)}, "index")
    ELSE Rendering(apply_style(st.buf, y, x, id, n),
                   st.addressed \cup {cell \in {Cell(y, x), Cell(y, x + n)} :
                                        InGrid(st.buf, cell)},
                   "ok")

\* Screen::draw_cursor called by render
render_draw_cursor(st, y, x) ==
    IF ~InGrid(st.buf, Cell(y, x))
    THEN Rendering(st.buf, st.addressed \cup {Cell(y, x)}, "index")
    ELSE Rendering(draw_cursor(st.buf, y, x), st.addressed \cup {Cell(y, x)}, "ok")

\* Window::render, one style span of a line
render_span(st, self, i, style_span, debug_build) ==
    LET right == u16_add(self.col_offset, self.cols)
        span_end_ == (style_span.start + style_span.length) % UsizeMod
    IN  IF debug_build /\ style_span.start + style_span.length >= UsizeMod
        THEN [st EXCEPT !.status = "overflow"]
        ELSE IF span_end_ <= self.col_offset
        THEN st
        ELSE IF debug_build /\ right.overflow
        THEN [st EXCEPT !.status = "overflow"]
        ELSE IF right.v <= style_span.start
        THEN st
        ELSE IF style_span.start < self.col_offset
        THEN render_apply_style(st, style_span.id, i, as_u16(0),
                                style_span.length - (self.col_offset - style_span.start))
        ELSE render_apply_style(st, style_span.id, i,
                                as_u16(style_span.start - self.col_offset),
                                style_span.length)

\* Window::render, the style spans of a line
RECURSIVE render_spans(_, _, _, _, _)
render_spans(st, self, i, it, debug_build) ==
    IF st.status # "ok" THEN st
    ELSE Then(style_iterator_next(it, debug_build),
              LAMBDA r :
                CASE r.status = "done" -> st
                  [] r.status = "panic" -> [st EXCEPT !.status = "styles"]
                  [] OTHER ->
                        render_spans(render_span(st, self, i, r.item, debug_build),
                                     self, i, r.it, debug_build))

\* Window::render, one cursor of a line
render_cursor(st, self, i, offset, debug_build) ==
    LET right == u16_add(self.col_offset, self.cols)
    IN  IF offset < self.col_offset
        THEN st
        ELSE IF debug_build /\ right.overflow
        THEN [st EXCEPT !.status = "overflow"]
        ELSE IF right.v <= offset
        THEN st
        ELSE IF debug_build /\ as_u16(offset) < self.col_offset
        THEN [st EXCEPT !.status = "overflow"]
        ELSE render_draw_cursor(st, i, u16_sub(as_u16(offset), self.col_offset).v)

\* Window::render, the cursors of a line
RECURSIVE render_cursors(_, _, _, _, _)
render_cursors(st, self, i, cursors, debug_build) ==
    IF st.status # "ok" \/ cursors = <<>> THEN st
    ELSE render_cursors(render_cursor(st, self, i, Head(cursors), debug_build),
                        self, i, Tail(cursors), debug_build)

\* Window::render, the body of the loop over the lines
render_line(st, self, i, line, debug_build) ==
    Then(render_write_str(st, as_u16(i), 0,
                          visible_text(line.text, self.col_offset, self.cols)),
         LAMBDA written :
            Then(render_spans(written, self, as_u16(i), iter_style_spans(line.styles),
                              debug_build),
                 LAMBDA styled :
                    render_cursors(styled, self, as_u16(i), line.cursors, debug_build)))

\* Window::render, the loop over the lines from row i on
RECURSIVE render_lines(_, _, _, _, _)
render_lines(st, self, i, lines, debug_build) ==
    IF st.status # "ok" \/ lines = <<>> THEN st
    ELSE render_lines(render_line(st, self, i, Head(lines), debug_build),
                      self, i + 1, Tail(lines), debug_build)

\* Window::render, the rows from line_no on are filled with tildes
RECURSIVE render_tildes(_, _, _)
render_tildes(st, self, line_no) ==
    IF st.status # "ok" \/ line_no >= self.rows THEN st
    ELSE render_tildes(render_write_str(st, line_no, 0, <<"~">>), self, line_no + 1)

\* tildes that start below the lines that are drawn
tildes_below_drawn(self) ==
    as_u16(Len(take(skip_(all_lines(self.line_cache), self.row_offset), self.rows)))

\* Window::render, starting_line_no
starting_line_no(self) == as_u16(len(self.line_cache))

\* Window::render
render(self, buf_, debug_build) ==
    Then(render_lines(Rendering(erase(buf_), {}, "ok"), self, 0,
                      take(skip_(all_lines(self.line_cache), self.row_offset), self.rows),
                      debug_build),
         LAMBDA drawn : render_tildes(drawn, self, starting_line_no(self)))

\* the coordinates the engine scrolls to, as u16
ScrollCoordinates == [x : 0..(U16Mod - 1), y : 0..(U16Mod - 1)]

\* the offsets scroll_to can leave: a row offset puts the bottom row at most
\* at the largest u16, a column offset can be any u16
RowOffsets == 0..(U16Mod - ScreenRows)
ColOffsets == 0..(U16Mod - 1)

\* no window before the last scroll_to
NoWindow == [row_offset |-> 0, col_offset |-> 0, coordinate |-> [x |-> 0, y |-> 0]]

\* WindowMap::new
InitWindow ==
    /\ window = NewWindow
    /\ window_old = NoWindow
    /\ window_status = "new"
    /\ addressed = {}

InitUi == InitEditor /\ InitWindow

\* Editor::scroll_to -> Window::scroll_to
ScrollTo ==
    /\ window_status # "overflow"
    /\ \E coordinate \in ScrollCoordinates, debug_build \in BOOLEAN :
        \E r \in {scroll_to(window, coordinate, debug_build)} :
            /\ window' = r.window
            /\ window_status' = IF r.status = "ok" THEN "scrolled" ELSE r.status
            /\ window_old' = [row_offset |-> window.row_offset,
                              col_offset |-> window.col_offset,
                              coordinate |-> coordinate]
    /\ UNCHANGED addressed
    /\ UNCHANGED <<editor_vars, line_styles, style_triples, last_span_end, span_items,
                   span_status, eol_coordinate, eol_result>>
    /\ UNCHANGED <<iter_range, iter_result, cache_vars, core_vars, screen_vars>>

\* Editor::update -> Window::render
Render ==
    /\ window_status \in {"new", "scrolled", "rendered"}
    /\ \E debug_build \in BOOLEAN :
        \E r \in {render(window, buf, debug_build)} :
            /\ buf' = r.buf
            /\ addressed' = r.addressed
            /\ window_status' = IF r.status = "ok" THEN "rendered" ELSE r.status
    /\ UNCHANGED <<window, window_old>>
    /\ UNCHANGED <<cur_buf, styles, text_color, out, log, screen_result, calls, setups,
                   flushes, spans>>
    /\ UNCHANGED <<editor_vars, line_styles, style_triples, last_span_end, span_items,
                   span_status, eol_coordinate, eol_result>>
    /\ UNCHANGED <<iter_range, iter_result, cache_vars, core_vars>>

\* Line::default
InitLine ==
    /\ line_styles = <<>>
    /\ style_triples = <<>>
    /\ last_span_end = 0
    /\ span_items = <<>>
    /\ span_status = "ok"
    /\ InitEol
    /\ InitUi

\* StyleIterator::next, called until it returns None
StyleIteratorNext ==
    /\ span_status = "ok"
    /\ \E debug_build \in BOOLEAN :
        \E r \in {style_iterator_next([style_triples |-> style_triples,
                                       last_span_end |-> last_span_end],
                                      debug_build)} :
            /\ style_triples' = r.it.style_triples
            /\ last_span_end' = r.it.last_span_end
            /\ span_items' = IF r.status = "ok" THEN Append(span_items, r.item)
                             ELSE span_items
            /\ span_status' = r.status
    /\ UNCHANGED <<line_styles, eol_coordinate, eol_result, iter_range, iter_result>>
    /\ UNCHANGED <<cache_vars, core_vars, screen_vars, ui_vars>>

Init == InitCache /\ InitIter /\ InitLine /\ InitCore /\ InitScreen

Next == Update

Spec == Init /\ [][Next]_vars

\* the specification of iter_lines: any cache an update can build, any range
IterInit ==
    /\ cache \in CacheSet
    /\ old_cache = EmptyCache
    /\ last_ops = <<>>
    /\ cache_status = "ok"
    /\ assert_ok = TRUE
    /\ updates = 0
    /\ InitIter
    /\ InitLine
    /\ InitCore
    /\ InitScreen

IterNext == \E range \in RangeSet, debug_build \in BOOLEAN : IterLines(range, debug_build)

IterSpec == IterInit /\ [][IterNext]_vars

\* the specification of the style spans of a line: any styles the engine
\* sends, read by iter_style_spans to the end
SpanInit ==
    /\ InitCache
    /\ InitIter
    /\ InitCore
    /\ InitScreen
    /\ line_styles \in StylesSet
    /\ style_triples = iter_style_spans(line_styles).style_triples
    /\ last_span_end = iter_style_spans(line_styles).last_span_end
    /\ span_items = <<>>
    /\ span_status = "ok"
    /\ InitEol
    /\ InitUi

SpanNext == StyleIteratorNext

SpanSpec == SpanInit /\ [][SpanNext]_vars

\* the specification of the end-of-line test: any cache an update can build
\* and the cache of the test, any coordinate
EolInit ==
    /\ cache \in CacheSet \cup {HelloCache}
    /\ old_cache = EmptyCache
    /\ last_ops = <<>>
    /\ cache_status = "ok"
    /\ assert_ok = TRUE
    /\ updates = 0
    /\ InitIter
    /\ InitLine
    /\ InitCore
    /\ InitScreen

EolNext == IsEol

EolSpec == EolInit /\ [][EolNext]_vars

\* the specification of the editor: the main thread from Editor::new to the
\* end of Editor::run, the reader thread and the child
EditorNext ==
    \/ NewViewRequest
    \/ EngineNewView
    \/ EngineNotification
    \/ ReaderForward
    \/ NewViewInsert
    \/ \E key \in Keys : HandleInput(key)
    \/ HandleNotification

EditorSpec == Init /\ [][EditorNext]_vars

\* the specification of scrolling: a new window, scrolled to any coordinates
ScrollNext == ScrollTo

ScrollSpec == Init /\ [][ScrollNext]_vars

\* the specification of rendering: a window with any cache and any offsets
\* scroll_to can leave, rendered
RenderInit ==
    /\ InitCache
    /\ InitIter
    /\ InitCore
    /\ InitScreen
    /\ line_styles = <<>>
    /\ style_triples = <<>>
    /\ last_span_end = 0
    /\ span_items = <<>>
    /\ span_status = "ok"
    /\ InitEol
    /\ InitEditor
    /\ \E line_cache \in WindowCaches, row_offset \in RowOffsets, col_offset \in ColOffsets :
            window = Window(line_cache, row_offset, col_offset,
                            [x |-> col_offset, y |-> row_offset])
    /\ window_old = NoWindow
    /\ window_status = "new"
    /\ addressed = {}

RenderNext == Render

RenderSpec == RenderInit /\ [][RenderNext]_vars

\* the specification of the screen
ScreenSpec == Init /\ [][ScreenNext]_vars

\* a client of the screen that styles cells: define_style, apply_style, refresh
StyleNext ==
    \/ DefineStyle
    \/ ApplyStyle
    \/ Refresh

StyleSpec == Init /\ [][StyleNext]_vars

\* a client of the screen that draws text with the default styles
TextNext ==
    \/ WriteStr
    \/ SetTextColor
    \/ DrawCursor
    \/ Erase
    \/ EraseLine
    \/ Refresh

TextSpec == Init /\ [][TextNext]_vars

\* a client of the screen that only fills the pending buffer and flushes it
BufferNext ==
    \/ ApplyStyle
    \/ WriteStr
    \/ DrawCursor
    \/ Erase
    \/ EraseLine
    \/ Refresh

BufferSpec == Init /\ [][BufferNext]_vars

\* the specification of the transport
CoreSpec == Init /\ [][CoreNext]_vars

\* the specification of the transport with a child that may break the protocol
RogueCoreSpec == Init /\ [][RogueNext]_vars

\* the specification of the transport from the start to the end of the run
ShutdownSpec == Init /\ [][ShutdownNext]_vars

\* every cache that updates build is one of CacheSet
CacheInCacheSet == cache_status \in {"new", "ok"} => cache \in CacheSet

(***************************************************************************)
(* Properties of LineCache::update                                         *)
(***************************************************************************)
Updated == cache_status # "new"
FourKinds(ops) == \A i \in 1..Len(ops) : ops[i].op \in {"ins", "invalidate", "copy", "skip"}

\* the state of the last update before and after its i-th op
Before(i) == apply_ops(swap_new(old_cache), SubSeq(last_ops, 1, i - 1))
After(i) == apply_ops(swap_new(old_cache), SubSeq(last_ops, 1, i))

RECURSIVE InsLines(_), SumOf(_, _)
InsLines(ops) ==
    IF ops = <<>> THEN <<>>
    ELSE (IF Head(ops).op = "ins" THEN Head(ops).lines ELSE <<>>) \o InsLines(Tail(ops))
SumOf(ops, kinds) ==
    IF ops = <<>> THEN 0
    ELSE (IF Head(ops).op \in kinds THEN Head(ops).n ELSE 0) + SumOf(Tail(ops), kinds)
Count(seq, v) == Cardinality({i \in 1..Len(seq) : seq[i] = v})

\* C1: after every update of Ins/Invalidate/Copy/Skip ops the length of the
\* cache (unknown before + known + unknown after) is the sum of n over the
\* ops that are not Skip, i.e. the debug assertion of update holds.
C1_LenIsSumOfN ==
    (Updated /\ FourKinds(last_ops)) =>
        /\ len(cache) = SumOf(last_ops, {"ins", "invalidate", "copy"})
        /\ assert_ok

\* C4: an update of the single op Copy(n) on a cache of b unknown-before lines
\* and k known lines yields min(n,b) unknown-before lines followed by the
\* first min(n - min(n,b), k) known lines of the old cache, in order.
C4_CopyUnknownThenFront ==
    (Updated /\ Len(last_ops) = 1 /\ last_ops[1].op = "copy") =>
        LET n == last_ops[1].n
            b == old_cache.invalid_before
            k == Len(old_cache.lines)
            nb == Min(n, b)
            nk == Min(n - nb, k)
        IN  cache = [invalid_before |-> nb,
                     lines |-> SubSeq(old_cache.lines, 1, nk),
                     invalid_after |-> 0]

\* C4 witness: Copy(n) took the whole unknown-before run and some, not all,
\* of at least two different known lines
C4_Witness ==
    /\ Updated /\ Len(last_ops) = 1 /\ last_ops[1].op = "copy"
    /\ old_cache.invalid_before >= 1
    /\ last_ops[1].n > old_cache.invalid_before
    /\ last_ops[1].n < old_cache.invalid_before + Len(old_cache.lines)
    /\ old_cache.lines[1] # old_cache.lines[Len(old_cache.lines)]
    /\ cache.lines # <<>>

\* what is left of an old cache of b unknown-before lines after n of its
\* lines were consumed, unknown-before run first
Consume(c, n) ==
    LET nb == Min(n, c.invalid_before)
        nk == Min(n - nb, Len(c.lines))
    IN  [invalid_before |-> c.invalid_before - nb,
         lines |-> SubSeq(c.lines, nk + 1, Len(c.lines)),
         invalid_after |-> c.invalid_after]

\* C5: Skip(n) consumes the old cache like Copy (unknown-before run first,
\* then known lines from the front) and discards what it consumed: the new
\* cache and its expected length are unchanged by the Skip, and a following
\* Copy continues with the first old line after the skipped ones.
C5_SkipDiscards ==
    Updated =>
        /\ \A i \in 1..Len(last_ops) :
            (last_ops[i].op = "skip" /\ Before(i).panic = "none") =>
                /\ After(i).self = Before(i).self
                /\ After(i).expected_lines = Before(i).expected_lines
                /\ After(i).old_cache = Consume(Before(i).old_cache, last_ops[i].n)
        /\ (Len(last_ops) = 2 /\ last_ops[1].op = "skip" /\ last_ops[2].op = "copy") =>
                LET rest == Consume(old_cache, last_ops[1].n)
                    n == last_ops[2].n
                    nb == Min(n, rest.invalid_before)
                    nk == Min(n - nb, Len(rest.lines))
                IN  cache = [invalid_before |-> nb,
                             lines |-> SubSeq(rest.lines, 1, nk),
                             invalid_after |-> 0]

\* C5 witness: a Skip consumed an unknown line and a known line, and the Copy
\* after it moved the next known line, which differs from the skipped one
C5_Witness ==
    /\ Updated /\ Len(last_ops) = 2
    /\ last_ops[1].op = "skip" /\ last_ops[2].op = "copy"
    /\ old_cache.invalid_before = 1 /\ last_ops[1].n = 2
    /\ Len(old_cache.lines) = 2 /\ old_cache.lines[1] # old_cache.lines[2]
    /\ cache.lines = <<old_cache.lines[2]>>

\* C6: Invalidate(n) adds n to the unknown-before count of the new cache when
\* the new cache holds no known line, and to its unknown-after count
\* otherwise; an update of the single op Invalidate(n) yields len() = n and no
\* known line.
C6_InvalidateBeforeOrAfter ==
    Updated =>
        /\ \A i \in 1..Len(last_ops) :
            (last_ops[i].op = "invalidate" /\ Before(i).panic = "none") =>
                LET s == Before(i).self
                    t == After(i).self
                    n == last_ops[i].n
                IN  /\ t.lines = s.lines
                    /\ IF s.lines = <<>>
                       THEN /\ t.invalid_before = s.invalid_before + n
                            /\ t.invalid_after = s.invalid_after
                       ELSE /\ t.invalid_before = s.invalid_before
                            /\ t.invalid_after = s.invalid_after + n
                    /\ (i = Len(last_ops) => cache = t)
        /\ (Len(last_ops) = 1 /\ last_ops[1].op = "invalidate") =>
                /\ len(cache) = last_ops[1].n
                /\ cache.lines = <<>>

\* C6 witness: an Invalidate after an Ins went to the unknown-after count
C6_Witness ==
    /\ Updated /\ Len(last_ops) = 2
    /\ last_ops[1].op = "ins" /\ last_ops[2].op = "invalidate"
    /\ cache.invalid_after = last_ops[2].n /\ cache.invalid_before = 0

\* C7: an update replaces the cache: the new cache holds only lines of the Ins
\* ops of the update, in their order, and lines that Copy ops moved from the
\* old cache; without a Copy op nothing of the old cache survives, and an
\* update without ops yields the empty cache.
C7_UpdateReplaces ==
    (Updated /\ FourKinds(last_ops)) =>
        /\ \A v \in LineVals :
            Count(cache.lines, v) <= Count(InsLines(last_ops), v) + Count(old_cache.lines, v)
        /\ cache.invalid_before + cache.invalid_after
                <= SumOf(last_ops, {"invalidate"}) + old_cache.invalid_before
        /\ (SumOf(last_ops, {"copy"}) = 0) =>
                /\ cache.lines = InsLines(last_ops)
                /\ cache.invalid_before + cache.invalid_after = SumOf(last_ops, {"invalidate"})
                /\ cache = update(EmptyCache, last_ops).self
        /\ (last_ops = <<>> => cache = EmptyCache)

\* C7 witness: an update without Copy replaced a cache that held known and
\* unknown lines by the lines of its Ins op
C7_Witness ==
    /\ Updated /\ FourKinds(last_ops)
    /\ SumOf(last_ops, {"copy"}) = 0
    /\ old_cache.lines # <<>> /\ old_cache.invalid_before > 0
    /\ cache.lines # <<>> /\ cache.lines[1] # old_cache.lines[1]
    /\ cache.invalid_before = 0

\* C7 witness of the empty update
C7_WitnessEmpty == Updated /\ last_ops = <<>> /\ old_cache # EmptyCache

(***************************************************************************)
(* Properties of LineCache::iter_lines                                     *)
(***************************************************************************)
Called == iter_range # NoRange

\* the first and the last absolute line index of an a..b or a..=b range
FirstIdx == iter_range.start.bound
LastIdx ==
    IF iter_range.end.kind = "Included" THEN iter_range.end.bound
    ELSE iter_range.end.bound - 1

\* the last call had a non-empty range of the form a..b or a..=b
PlainRange ==
    /\ Called
    /\ iter_range.start.kind = "Included"
    /\ iter_range.end.kind \in {"Included", "Excluded"}
    /\ FirstIdx <= LastIdx

Known(i) == cache.invalid_before <= i /\ i < cache.invalid_before + Len(cache.lines)
Unknown(i) == i < len(cache) /\ ~Known(i)

\* C2: iter_lines over a range that lies inside the known segment returns
\* exactly the lines at the requested indices in order: b-a lines for a..b
\* and b-a+1 lines for a..=b.
C2_IterLinesReturnsRange ==
    (PlainRange /\ Known(FirstIdx) /\ Known(LastIdx)) =>
        iter_result = IterSome(SubSeq(cache.lines,
                                      FirstIdx - cache.invalid_before + 1,
                                      LastIdx - cache.invalid_before + 1))

\* C3: iter_lines returns None whenever an index of the requested range lies
\* in the unknown-before or the unknown-after run of the cache, so that it
\* returns lines only for a range that lies in the known segment.
C3_IterLinesNoneOnUnknown ==
    (PlainRange /\ \E i \in FirstIdx..LastIdx : Unknown(i)) =>
        iter_result.kind = "None"

(***************************************************************************)
(* Properties of the transport                                             *)
(***************************************************************************)
\* the requests whose entry was inserted and not yet removed by the reader
InFlight == {s \in 1..Len(handles) : handles[s].state = "pending"}

\* C8: the ids of the in-flight requests are pairwise distinct: a request
\* never gets an id that is still in the pending table (the assertion of
\* Core::request holds), and every in-flight request keeps its own entry.
C8_InFlightIdsDistinct ==
    /\ caller_pc # "panic"
    /\ \A s1, s2 \in InFlight : s1 # s2 => handles[s1].id # handles[s2].id
    /\ \A s \in InFlight :
        /\ handles[s].id \in DOMAIN request_map
        /\ request_map[handles[s].id] = s

\* C8 witness: two requests are in flight at once, both sent to the child
C8_Witness ==
    /\ Cardinality(InFlight) >= 2
    /\ caller_pc = "idle"

\* C9: the search for the next id advances linearly past occupied ids: every
\* execution of the loop body moves next_id to the id after the candidate it
\* found occupied, so that the loop ends at a free id.
C9_SearchAdvances ==
    [][(caller_pc = "loop_body" /\ caller_pc' = "loop_check") =>
            next_id' = wrapping_add_1(next_id)]_vars

\* C10: each response is matched to its own request by id, whatever the order
\* of the responses on the stream: a future resolves with the result the
\* child computed for its request and with no other.
C10_ResponseMatchesRequest ==
    /\ \A s \in 1..Len(handles) :
        handles[s].state = "resolved" => handles[s].payload \in Answers(s)
    /\ reader_pc \in {"unlock", "complete"} =>
            reader_held.res \in Answers(reader_held.completer)

\* C10 witness: the response to the second request was read and delivered
\* while the first request, sent earlier, is still in flight
C10_Witness ==
    /\ Len(handles) >= 2
    /\ handles[1].state = "pending"
    /\ handles[2].state = "resolved"
    /\ handles[2].payload \in Answers(2)

\* the reader thread is about to look up the response it holds, and the
\* pending table has no entry for the id of that response
MissingEntry ==
    /\ reader_pc = "remove"
    /\ lock = "free"
    /\ ~contains_key(request_map, reader_held.id)

\* C11: a response whose id has no entry in the pending table is a detected
\* fatal protocol violation: the reader thread panics instead of going on to
\* the next line, that response removes and completes no entry, and the
\* reader thread does nothing after the panic.
C11_MissingEntryIsFatal ==
    [][/\ (MissingEntry /\ reader_pc' # reader_pc) =>
            /\ reader_pc' = "panic"
            /\ request_map' = request_map
            /\ handles' = handles
       /\ reader_pc = "panic" =>
            /\ reader_pc' = "panic"
            /\ reader_held' = reader_held
            /\ events' = events
            /\ Len(stdout') >= Len(stdout)
            /\ \A s \in 1..Len(handles) : handles'[s].state = handles[s].state]_vars

\* C11 witness: the reader thread panicked on a response nobody asked for
\* while a request was pending; the entry of that request is still there
C11_Witness ==
    /\ reader_pc = "panic"
    /\ rogue = 1
    /\ lock = "poisoned"
    /\ ~contains_key(request_map, reader_held.id)
    /\ \E s \in InFlight : contains_key(request_map, handles[s].id)

\* C12: an entry of the pending table is created by the call of request that
\* sends its request and is removed once, by the reader thread handling the
\* response that carries its id; no other step (another line read, a notify,
\* a response for another id) removes or replaces it, and a request stays
\* pending until that removal.
C12_EntryLifetime ==
    [][/\ \A id \in DOMAIN request_map :
            (id \notin DOMAIN request_map' \/ request_map'[id] # request_map[id]) =>
                /\ reader_pc = "remove" /\ reader_pc' = "unlock"
                /\ reader_held.id = id
                /\ id \notin DOMAIN request_map'
       /\ \A id \in DOMAIN request_map' \ DOMAIN request_map :
            /\ caller_pc = "idle" /\ caller_pc' = "loop_check"
            /\ id = next_id
            /\ request_map'[id] = Len(handles')
       /\ \A s \in 1..Len(handles) :
            /\ handles[s].state = "pending" =>
                \/ handles'[s].state = "pending"
                \/ /\ handles'[s].state = "removed"
                   /\ reader_pc = "remove"
                   /\ reader_held.id = handles[s].id
            /\ handles[s].state # "pending" => handles'[s].state # "pending"]_vars

\* C12 witness: a request is still pending, with its entry, after the
\* response to another request was delivered, a line other than a response
\* was read and a notification was sent
C12_Witness ==
    /\ \E s1, s2 \in 1..Len(handles) :
        /\ handles[s1].state = "resolved"
        /\ handles[s2].state = "pending"
        /\ contains_key(request_map, handles[s2].id)
        /\ request_map[handles[s2].id] = s2
    /\ noise = 1
    /\ stdout = <<>>
    /\ reader_pc = "read"
    /\ [id |-> NoId, req |-> NoSerial] \in core_inbox

\* C13: a line that does not parse is logged and dropped: the step that logs
\* it changes neither the pending table nor the futures nor the notification
\* channel nor the lock, and the reader thread is back at the head of its
\* loop with the rest of the stream unread.
C13_ParseErrorDropped ==
    [][parse_errors' # parse_errors =>
            /\ request_map' = request_map
            /\ handles' = handles
            /\ events' = events
            /\ lock' = lock
            /\ reader_pc' = "read"
            /\ stdout' = Tail(stdout)]_vars

\* C13 witness: after a line that did not parse was dropped, the reader
\* thread read a response and is about to complete its request
C13_Witness ==
    /\ parse_errors = 1
    /\ reader_pc = "complete"
    /\ handles[reader_held.completer].state = "removed"

\* the response carries result and no error, error and no result
ResultOnly(res) == res.result # None /\ res.error = None
ErrorOnly(res) == res.result = None /\ res.error # None

\* the requests whose future was waited for
Waited == {s \in 1..Len(handles) : handles[s].outcome # NoOutcome}

\* C14: a response carrying an error value for a request fails the call of
\* that request with BadResponse carrying that error, and only that call:
\* the step that delivers a response or an outcome to one request changes no
\* other request, and every other call gets the outcome of its own response.
C14_ErrorReachesItsCallOnly ==
    /\ [](\A s \in Waited :
            /\ handles[s].state = "resolved"
            /\ handles[s].outcome.value = s
            /\ handles[s].outcome.kind = "BadResponse" <=> ErrorOnly(handles[s].payload)
            /\ handles[s].outcome.kind = "Ok" <=> ResultOnly(handles[s].payload))
    /\ [][\A s \in 1..Len(handles) :
            (handles'[s].payload # handles[s].payload
                \/ handles'[s].outcome # handles[s].outcome) =>
                    \A t \in 1..Len(handles) : t # s => handles'[t] = handles[t]]_vars

\* C14 witness: the first call failed with BadResponse while the second was
\* pending, and the second call later got its own result
C14_Witness ==
    /\ Len(handles) >= 2
    /\ handles[1].outcome = [kind |-> "BadResponse", value |-> 1]
    /\ handles[2].outcome = [kind |-> "Ok", value |-> 2]
    /\ handles[1].id # handles[2].id

\* C15: into_result yields a result exactly when the response carries result
\* and no error, a typed failure exactly when it carries error and no result,
\* and panics when it carries both or neither.
C15_IntoResult ==
    \A s \in Waited :
        /\ handles[s].outcome.kind = "Ok" <=> ResultOnly(handles[s].payload)
        /\ handles[s].outcome.kind \in {"BadResponse", "Protocol"}
                <=> ErrorOnly(handles[s].payload)
        /\ handles[s].outcome.kind = "panic"
                <=> ~ResultOnly(handles[s].payload) /\ ~ErrorOnly(handles[s].payload)

\* C15 amended: into_result yields a result or the Protocol failure exactly
\* when the response carries result and no error (the result when the value
\* deserializes to the expected type, the Protocol failure when it does not),
\* BadResponse exactly when it carries error and no result, and panics when
\* it carries both or neither.
C15_IntoResultAmended ==
    \A s \in Waited :
        /\ handles[s].outcome.kind \in {"Ok", "Protocol"} <=> ResultOnly(handles[s].payload)
        /\ handles[s].outcome.kind = "Ok" =>  handles[s].payload.result.json = "string"
        /\ handles[s].outcome.kind = "Protocol" => handles[s].payload.result.json # "string"
        /\ handles[s].outcome.kind = "BadResponse" <=> ErrorOnly(handles[s].payload)
        /\ handles[s].outcome.kind = "panic"
                <=> ~ResultOnly(handles[s].payload) /\ ~ErrorOnly(handles[s].payload)

\* C15 witness: one call got a result, the other panicked on a response
\* that carries both result and error
C15_Witness ==
    /\ \E s \in Waited : handles[s].outcome.kind = "Ok"
    /\ \E s \in Waited :
        /\ handles[s].outcome.kind = "panic"
        /\ handles[s].payload.result # None
        /\ handles[s].payload.error # None

\* C16: the lock of the pending table is never held across I/O: the caller
\* holds it only from the insert to the end of the search for the next id,
\* not while it writes the request; the reader holds it only for the removal
\* of an entry, not while it reads a line or completes a future.
C16_LockNotHeldAcrossIO ==
    /\ lock = "caller" => caller_pc \in {"loop_check", "loop_body"}
    /\ lock = "reader" => reader_pc = "unlock"
    /\ caller_pc \in {"send", "idle"} => lock # "caller"
    /\ reader_pc \in {"read", "remove", "complete"} => lock # "reader"

\* C16 witness: the caller is about to write a request and the reader is
\* about to complete a future, and nobody holds the lock
C16_Witness ==
    /\ caller_pc = "send"
    /\ reader_pc = "complete"
    /\ lock = "free"

\* C17: shutdown follows a fixed order: the control loop has stopped before
\* the write handle is closed, closing it writes nothing to the child, the
\* child has exited before the terminal is restored, and the cursor is shown
\* last; once the loop has stopped nothing more is sent to the child.
C17_ShutdownOrder ==
    /\ [](/\ stdin = "None" => main_pc # "run"
          /\ terminal = "restored" =>
                /\ child = "exited"
                /\ stdin = "None"
                /\ main_pc # "run"
          /\ main_pc = "exited" => terminal = "restored")
    /\ [][/\ stdin' # stdin => core_inbox' = core_inbox
          /\ main_pc # "run" =>
                /\ core_inbox' \subseteq core_inbox
                /\ Len(handles') = Len(handles)
                /\ main_pc' # "run"]_vars

\* C17 witness: the run ended: the child was sent a request, the handle was
\* closed, the child exited, the terminal was restored and the cursor shown
C17_Witness ==
    /\ main_pc = "exited"
    /\ terminal = "restored"
    /\ child = "exited"
    /\ stdin = "None"
    /\ Len(handles) >= 1


(***************************************************************************)
(* The screen: what a flush writes.                                        *)
(***************************************************************************)
\* the step is a call of Screen::refresh that returned Ok
FlushOk == flushes' = flushes + 1 /\ screen_result' = "Ok"

\* the positions of the sequence o that hold the token tok
Positions(o, tok) == {k \in 1..Len(o) : o[k] = tok}

\* the positions of the sequence o that hold a positioning sequence
Gotos(o) == {k \in 1..Len(o) : o[k].t = "Goto"}

\* what the sequence o holds from position k up to the next positioning
\* sequence or the end
Segment(o, k) ==
    LET later == {j \in Gotos(o) : j > k}
        last == IF later = {} THEN Len(o)
                ELSE (CHOOSE j \in later : \A j2 \in later : j <= j2) - 1
    IN  SubSeq(o, k, last)

\* the characters of the sequence o, in order
CharsOf(o) ==
    LET cs == SelectSeq(o, LAMBDA tok : tok.t = "Char")
    IN  [k \in 1..Len(cs) |-> cs[k].c]

\* the characters of the cells of a row, left to right
RowChars(row) == [k \in 1..Len(row) |-> row[k].c]

\* C18: renderer idempotence: when the same content is flushed twice in a
\* row (the pending buffer equals the displayed buffer after a flush that
\* returned Ok), the second flush writes nothing at all; a flush of content
\* that differs from the displayed content writes a positioning sequence.
C18_RendererIdempotence ==
    [][FlushOk =>
        IF buf = cur_buf
        THEN (flushes >= 1 /\ screen_result = "Ok") => out' = <<>>
        ELSE Gotos(out') # {}]_vars

\* C19: in a flush, a row whose pending cells equal its displayed cells
\* writes nothing (no positioning sequence of that row), and a row that
\* differs writes exactly one positioning sequence, followed up to the next
\* positioning sequence by the characters of all its cells, left to right.
\* With no row changed, no positioning sequence and no character is written.
C19_RowsWrittenOnce ==
    [][FlushOk =>
        /\ \A i \in 1..ScreenRows :
            LET at == Positions(out', Goto(i))
            IN  IF buf[i] = cur_buf[i]
                THEN at = {}
                ELSE /\ Cardinality(at) = 1
                     /\ \A k \in at :
                            /\ out'[k + 1] = CurrentLine
                            /\ CharsOf(Segment(out', k)) = RowChars(buf[i])
        /\ \A k \in Gotos(out') : out'[k].n \in 1..ScreenRows
        /\ (buf = cur_buf) => CharsOf(out') = <<>>]_vars

\* C19 witness: a flush returned Ok and wrote the first row, which holds a
\* written character, and not the second row, which had not changed
C19_Witness ==
    /\ screen_result = "Ok"
    /\ flushes >= 1
    /\ Cardinality(Positions(out, Goto(1))) = 1
    /\ Positions(out, Goto(2)) = {}
    /\ Positions(out, Char("a")) # {}

\* the counter steps of the log that a marker took for the attribute attr
\* from the counter value from to the counter value to
Steps(attr, by, from, to) ==
    {k \in 1..Len(log) : /\ log[k].attr = attr /\ log[k].by = by
                         /\ log[k].from = from /\ log[k].to = to}

\* the disable sequences written after the last cell of a row
RowEnds(attr) == {k \in 1..Len(log) : log[k].attr = attr /\ log[k].by = "row_end"}

\* C20: while a changed row is flushed, a marker writes the enable sequence
\* of bold, italic or underline exactly when it is a span start that takes
\* the counter of the attribute from 0 to 1, and the disable sequence exactly
\* when it is a span end that takes the counter from 1 to 0; no other counter
\* step writes an enable or a disable sequence. The output holds one enable
\* sequence per step from 0 to 1 and one disable sequence per step from 1 to
\* 0, besides the disable sequences written after the last cell of a row.
C20_EnableDisableOnEdges ==
    /\ \A k \in 1..Len(log) :
        log[k].by \in {"start", "end"} =>
            /\ log[k].wrote = "enable" <=>
                    (log[k].by = "start" /\ log[k].from = 0 /\ log[k].to = 1)
            /\ log[k].wrote = "disable" <=>
                    (log[k].by = "end" /\ log[k].from = 1 /\ log[k].to = 0)
    /\ \A attr \in Attrs :
        /\ Cardinality(Positions(out, Enable(attr)))
                = Cardinality(Steps(attr, "start", 0, 1))
        /\ Cardinality(Positions(out, Disable(attr)))
                = Cardinality(Steps(attr, "end", 1, 0)) + Cardinality(RowEnds(attr))

\* C20 witness: a flush wrote a row in which a bold span starts and ends: the
\* start took the counter from 0 to 1 and wrote the enable sequence, the end
\* took it from 1 to 0 and wrote the disable sequence
C20_Witness ==
    /\ screen_result = "Ok"
    /\ Steps("bold", "start", 0, 1) # {}
    /\ Steps("bold", "end", 1, 0) # {}
    /\ Positions(out, Enable("bold")) # {}
    /\ Positions(out, Disable("bold")) # {}


\* the positions of the characters in the sequence o, in order
CharPositions(o) == SelectSeq([p \in 1..Len(o) |-> p], LAMBDA p : o[p].t = "Char")

\* the attribute is on at position p of the sequence o: the last enable or
\* disable sequence of the attribute before p is an enable
IsOn(o, attr, p) ==
    LET toggles == {q \in 1..p : o[q] \in {Enable(attr), Disable(attr)}}
    IN  /\ toggles # {}
        /\ o[CHOOSE q \in toggles : \A q2 \in toggles : q2 <= q] = Enable(attr)

\* the spans applied to the row with index y whose style has the attribute
SpansWith(y, attr) ==
    {sp \in spans : sp.y = y /\ sp.id < Len(styles) /\ has_attr(styles[sp.id + 1], attr)}

\* the column c is covered by a span of the row with index y whose style has
\* the attribute
Covered(y, attr, c) == \E sp \in SpansWith(y, attr) : sp.from <= c /\ c < sp.to

\* the columns of the row at which a maximal run of covered columns begins
RunStarts(y, attr) ==
    {c \in 0..(ScreenCols - 1) :
        Covered(y, attr, c) /\ (c = 0 \/ ~Covered(y, attr, c - 1))}

\* the markers of the row with index y are those of the spans applied to it:
\* every marker is the start or the end of an applied span of a defined
\* style, and every start and every end of an applied span on the row holds
\* a marker
MarkersOfSpans(y) ==
    LET mine == {sp \in spans : sp.y = y}
    IN  /\ \A sp \in mine : sp.id < Len(styles)
        /\ \A c \in 0..(ScreenCols - 1) :
            LET starts == {sp.id : sp \in {t \in mine : t.from = c}}
                ends == {sp.id : sp \in {t \in mine : t.to = c}}
                cell == buf[y + 1][c + 1]
            IN  /\ IF starts = {} THEN cell.span_start = NoSpan
                   ELSE cell.span_start \in starts
                /\ IF ends = {} THEN cell.span_end = NoSpan
                   ELSE cell.span_end \in ends

\* C21: overlapping and adjacent spans: for the spans applied to a row, a
\* flush that wrote the row wrote, for every attribute, one enable and one
\* disable sequence per maximal run of columns covered by spans whose style
\* has the attribute, and the attribute is on at exactly the covered columns.
C21_OnePairPerRun ==
    screen_result = "Ok" =>
        \A i \in 1..ScreenRows : \A k \in Positions(out, Goto(i)) :
            MarkersOfSpans(i - 1) =>
                \A attr \in Attrs :
                    LET seg == Segment(out, k)
                        at == CharPositions(seg)
                        runs == Cardinality(RunStarts(i - 1, attr))
                    IN  /\ \A c \in 1..Len(at) :
                            IsOn(seg, attr, at[c]) <=> Covered(i - 1, attr, c - 1)
                        /\ Cardinality(Positions(seg, Enable(attr))) = runs
                        /\ Cardinality(Positions(seg, Disable(attr))) = runs


\* the sequence o ends with something on: the last of its tokens that turn
\* it on (kind on_t) or off (the tokens off) turns it on
LeftOn(o, on_t, off) ==
    LET toggles == {q \in 1..Len(o) : o[q].t = on_t \/ o[q] \in off}
    IN  /\ toggles # {}
        /\ o[CHOOSE q \in toggles : \A q2 \in toggles : q2 <= q].t = on_t

\* C22: no attribute leaks from one row into the next: in what a flush wrote
\* for a row, up to the next positioning sequence or the end of the flush,
\* every foreground colour, background colour, bold, italic, underline and
\* reverse video that was turned on is turned off again.
C22_NoLeakAcrossRows ==
    screen_result = "Ok" =>
        \A k \in Gotos(out) :
            LET seg == Segment(out, k)
            IN  /\ ~LeftOn(seg, "Fg", {Sgr("FgReset")})
                /\ ~LeftOn(seg, "Bg", {Sgr("BgReset")})
                /\ ~LeftOn(seg, "Bold", {Sgr("NoFaint")})
                /\ ~LeftOn(seg, "Italic", {Sgr("NoItalic")})
                /\ ~LeftOn(seg, "Underline", {Sgr("NoUnderline")})
                /\ ~LeftOn(seg, "Invert", {Sgr("NoInvert")})


\* C23: after every flush that returns Ok the displayed buffer equals the
\* pending buffer; a flush that fails with an I/O error leaves the displayed
\* buffer as it was, so a flush that returns Ok right after a failed one
\* writes every row that differs from the displayed buffer.
C23_DisplayedFollowsFlush ==
    [][(flushes' = flushes + 1) =>
        /\ screen_result' = "Ok" => (cur_buf' = buf /\ buf' = buf)
        /\ screen_result' = "Err" => cur_buf' = cur_buf
        /\ (screen_result = "Err" /\ screen_result' = "Ok") =>
                \A i \in 1..ScreenRows :
                    buf[i] # cur_buf[i] => Positions(out', Goto(i)) # {}]_vars

\* C23 witness: a flush wrote a changed row and then failed at the final
\* flush of the terminal: the displayed buffer is still the blank one
C23_Witness ==
    /\ screen_result = "Err"
    /\ Gotos(out) # {}
    /\ cur_buf = EmptyBuffer
    /\ buf # cur_buf


\* C24: write_str, apply_style, draw_cursor, erase and erase_line change only
\* the pending buffer: a step of one of them leaves the displayed buffer, the
\* style registry and the text colour as they were and writes nothing; only
\* a flush writes anything.
C24_MutationsOnlyPending ==
    [][/\ (calls' = calls + 1) =>
            /\ cur_buf' = cur_buf
            /\ styles' = styles
            /\ text_color' = text_color
            /\ out' = <<>>
       /\ out' # <<>> => flushes' = flushes + 1]_vars

\* C24 witness: after a flush that displayed a written character, a call
\* changed the pending buffer: the displayed buffer still holds what the
\* flush displayed and nothing was written
C24_Witness ==
    /\ flushes >= 1
    /\ calls = 2
    /\ screen_result = "none"
    /\ out = <<>>
    /\ cur_buf # EmptyBuffer
    /\ buf # cur_buf

\* the larger of two numbers
Larger(a, b) == IF a >= b THEN a ELSE b

\* C25: a new screen's registry holds default entries for the reserved ids 0
\* and 1 and nothing else; every define_style(id, s) leaves a table of
\* max(old size, id + 1) entries whose entry id is s, whose other old
\* entries are unchanged and whose new entries below id are default; the
\* table never shrinks and no other call of the styling client changes it.
C25_RegistryGrowth ==
    /\ styles = <<DefaultStyle, DefaultStyle>>
    /\ [][styles' # styles \/ setups' # setups =>
            /\ Len(styles') >= Len(styles)
            /\ \E id \in DefineIds, s \in StyleSet :
                   /\ Len(styles') = Larger(Len(styles), id + 1)
                   /\ styles'[id + 1] = s
                   /\ \A i \in 1..Len(styles) :
                          i # id + 1 => styles'[i] = styles[i]
                   /\ \A i \in (Len(styles) + 1)..id :
                          styles'[i] = DefaultStyle]_vars

\* C25 witness: define_style(3, s) on a new screen grew the table from two
\* to four entries: the reserved ones and the new entry 2 are default, entry
\* 3 is s
C25_Witness ==
    /\ setups = 1
    /\ Len(styles) = 4
    /\ styles[1] = DefaultStyle
    /\ styles[2] = DefaultStyle
    /\ styles[3] = DefaultStyle
    /\ styles[4] \in StyleSet

\* C26: in a flush, every cell of a written row that draw_cursor marked is
\* written as reverse-video on, the cell's character, reverse-video off: a
\* blank space when nothing was written to the cell; every other cell is
\* written as its character alone, so a row writes as many reverse-video
\* pairs as it has marked cells, however many were marked before the flush.
C26_CursorCells ==
    [][FlushOk =>
        \A i \in 1..ScreenRows : \A k \in Positions(out', Goto(i)) :
            LET seg == Segment(out', k)
                at == CharPositions(seg)
            IN  /\ Len(at) = ScreenCols
                /\ \A x \in 1..ScreenCols :
                       /\ seg[at[x]] = Char(buf[i][x].c)
                       /\ IF buf[i][x].is_reverse
                          THEN /\ seg[at[x] - 1] = Sgr("Invert")
                               /\ at[x] < Len(seg)
                               /\ seg[at[x] + 1] = Sgr("NoInvert")
                          ELSE seg[at[x] - 1] # Sgr("Invert")
                /\ Cardinality(Positions(seg, Sgr("Invert")))
                       = Cardinality({x \in 1..ScreenCols : buf[i][x].is_reverse})
                /\ Cardinality(Positions(seg, Sgr("NoInvert")))
                       = Cardinality({x \in 1..ScreenCols : buf[i][x].is_reverse})]_vars

\* C26 witness: two draw_cursor calls marked two cells that hold no written
\* character, and one flush wrote each as a blank space in reverse video
C26_Witness ==
    /\ screen_result = "Ok"
    /\ calls = 2
    /\ flushes = 1
    /\ Cardinality({y \in 1..ScreenRows : \E x \in 1..ScreenCols :
                        buf[y][x].is_reverse}) = 2
    /\ \A y \in 1..ScreenRows : \A x \in 1..ScreenCols : buf[y][x].c = " "
    /\ Cardinality(Positions(out, Sgr("Invert"))) = 2
    /\ \A k \in Positions(out, Sgr("Invert")) :
           out[k + 1] = Char(" ") /\ out[k + 2] = Sgr("NoInvert")

\* the column after the last column of a decoded span
EndOf(span) == span.start + span.length

\* C27: style spans are decoded cumulatively: the i-th span the iterator
\* returns starts at the end of the span before it (0 for the first) plus
\* the first number of the i-th triple, and has the second number as its
\* length and the third as its id; the iterator returns one span per triple
\* and then None; the triples 0,3,2, 0,1,3, 0,4,4, -1,3,2 decode to the spans
\* (start 0, length 3, id 2), (3, 1, 3), (4, 4, 4), (7, 3, 2).
C27_CumulativeDecoding ==
    /\ span_status # "panic"
    /\ \A i \in 1..Len(span_items) :
           /\ span_items[i].start =
                  (IF i = 1 THEN 0 ELSE EndOf(span_items[i - 1]))
                      + line_styles[3 * (i - 1) + 1]
           /\ span_items[i].length = line_styles[3 * (i - 1) + 2]
           /\ span_items[i].id = line_styles[3 * (i - 1) + 3]
    /\ span_status = "done" => 3 * Len(span_items) = Len(line_styles)
    /\ (span_status = "done" /\ line_styles = <<0, 3, 2, 0, 1, 3, 0, 4, 4, -1, 3, 2>>) =>
           span_items = <<StyleSpan(2, 0, 3), StyleSpan(3, 3, 1),
                          StyleSpan(4, 4, 4), StyleSpan(2, 7, 3)>>

\* C27 witness: the four triples of the test were read to the end and the
\* last span, whose start is counted back from the end of the third, was
\* returned
C27_Witness ==
    /\ line_styles = TestStyles
    /\ span_status = "done"
    /\ Len(span_items) = 4
    /\ span_items[4].start = 7

\* the columns a decoded span covers
ColumnsOf(span) == span.start..(EndOf(span) - 1)

\* no two of the spans returned so far cover a common column
NoCommonColumn ==
    \A i, j \in 1..Len(span_items) :
        i # j => ColumnsOf(span_items[i]) \cap ColumnsOf(span_items[j]) = {}

\* the first numbers of the triples of a line
Deltas(styles_) == {styles_[3 * (i - 1) + 1] : i \in 1..(Len(styles_) \div 3)}

\* C28 as stated: for every sequence of triples, no two decoded spans cover
\* a common column.
C28_NeverOverlapping == NoCommonColumn

\* C28 amended: the decoded spans are absolute, and no two of them cover a
\* common column when no triple counts its start back from the end of the
\* span before it (no first number of a triple is negative).
C28_DisjointForwardSpans ==
    (\A d \in Deltas(line_styles) : d >= 0) => NoCommonColumn

\* C28 witness: two triples with starts counted forward were decoded into
\* two spans of at least one column each, the second starting right at the
\* end of the first
C28_Witness ==
    /\ span_status = "done"
    /\ Len(span_items) = 2
    /\ \A d \in Deltas(line_styles) : d >= 0
    /\ span_items[1].length > 0
    /\ span_items[2].length > 0
    /\ span_items[2].start = EndOf(span_items[1])

SupportedKinds == {"ins", "invalidate", "copy", "skip"}

\* the ops of a sequence whose kind update applies
SupportedOps(ops) == SelectSeq(ops, LAMBDA op : op.op \in SupportedKinds)

\* C30: an op of an unsupported kind inside an update is ignored: the update
\* completes (it does not end in a panic), and the cache is the one that
\* the supported ops of the update, applied in order to the cache as it was,
\* produce.
C30_UnsupportedOpIgnored ==
    (\E i \in DOMAIN last_ops : last_ops[i].op \notin SupportedKinds) =>
        /\ cache_status # "unimplemented"
        /\ cache = update(old_cache, SupportedOps(last_ops)).self

\* the spans applied to the row with index y whose style has a foreground
\* colour
ColouredSpans(y) ==
    {sp \in spans : sp.y = y /\ sp.id < Len(styles) /\ styles[sp.id + 1].fg # NoColor}

\* what the part seg of a flush holds for the cell of column c (from 0): the
\* tokens after the character of the cell before, up to the character of
\* the cell
CellTokens(seg, c) ==
    LET at == CharPositions(seg)
        first == IF c = 0 THEN 1 ELSE at[c] + 1
    IN  {seg[q] : q \in first..at[c + 1]}

\* C34: foreground colour changes without redundant resets: in a flush
\* that wrote a row, a foreground reset is written at a cell exactly when a
\* coloured span ends at the cell and no coloured span starts there; at a
\* cell where a coloured span ends and another starts, the colour of a span
\* that starts there is written and no reset.
C34_NoRedundantReset ==
    screen_result = "Ok" =>
        \A i \in 1..ScreenRows : \A k \in Positions(out, Goto(i)) :
            \A c \in 0..(ScreenCols - 1) :
                LET toks == CellTokens(Segment(out, k), c)
                    ends == {sp \in ColouredSpans(i - 1) : sp.to = c}
                    starts == {sp \in ColouredSpans(i - 1) : sp.from = c}
                IN  /\ Sgr("FgReset") \in toks <=> (ends # {} /\ starts = {})
                    /\ (ends # {} /\ starts # {}) =>
                            \E sp \in starts : Fg(styles[sp.id + 1].fg) \in toks

\* C37: during a flush no nesting counter is decremented below zero: every
\* decrement at a span end starts from a counter above zero.
C37_NoCounterBelowZero ==
    \A k \in 1..Len(log) : log[k].by = "end" => log[k].from > 0

\* C40: is_eol and iter_lines number the lines alike: with b unknown lines
\* before the known ones, is_eol at row y is true exactly when line y of the
\* cache is the known line at position y - b, that line has a character at
\* the column and the character is the line terminator; it is false when
\* line y is unknown.
C40_SameLineNumbering ==
    eol_coordinate # NoCoordinate =>
        LET b == cache.invalid_before
            x == eol_coordinate.x
            y == eol_coordinate.y
        IN  eol_result <=>
                /\ y >= b
                /\ y - b + 1 \in DOMAIN cache.lines
                /\ x + 1 \in DOMAIN text(cache.lines[y - b + 1])
                /\ text(cache.lines[y - b + 1])[x + 1] = "\n"

\* an unknown line of a document
UnknownLine == 0

\* n unknown lines
Unknowns(n) == [i \in 1..n |-> UnknownLine]

\* a cache read as a document: the unknown lines before, the known lines,
\* the unknown lines after
Read(c) == Unknowns(c.invalid_before) \o c.lines \o Unknowns(c.invalid_after)

RECURSIVE Described(_, _, _)
\* the document the ops describe, the ops before them having referred to the
\* first pos lines of the old document: ins gives its lines, invalidate gives
\* unknown lines, copy gives the next lines of the old document, skip passes
\* over them
Described(old, pos, ops) ==
    IF ops = <<>> THEN <<>>
    ELSE LET op == Head(ops)
         IN  IF op.op = "ins" THEN op.lines \o Described(old, pos, Tail(ops))
             ELSE IF op.op = "invalidate"
             THEN Unknowns(op.n) \o Described(old, pos, Tail(ops))
             ELSE IF op.op = "copy"
             THEN SubSeq(old, pos + 1, Min(pos + op.n, Len(old)))
                      \o Described(old, pos + op.n, Tail(ops))
             ELSE Described(old, pos + op.n, Tail(ops))

\* C36: the new cache keeps the order in which the ops describe the
\* document: after an update that completed, the new cache read as a
\* document agrees, position by position, with the document the ops
\* describe from the old cache.
C36_OrderPreserved ==
    cache_status = "ok" =>
        LET new == Read(cache)
            doc == Described(Read(old_cache), 0, last_ops)
        IN  \A p \in 1..Min(Len(new), Len(doc)) : new[p] = doc[p]

\* C38: the completer of a request is in the pending table before the request
\* is written to the child, so with a child that answers only the ids it
\* received, each at most once, the reader thread always finds the entry of
\* the response it holds: the lookup never misses and the reader thread never
\* panics.
C38_ResponseFindsEntry ==
    /\ reader_pc = "remove" => contains_key(request_map, reader_held.id)
    /\ reader_pc # "panic"
    /\ \A m \in core_inbox : m.id # NoId => contains_key(request_map, m.id)

\* C38 witness: the reader thread found the entry of a response while the
\* caller was between the insert and the write of a later request
C38_Witness ==
    /\ reader_pc = "complete"
    /\ reader_held.completer = 1
    /\ caller_pc = "send"
    /\ Len(handles) = 2
    /\ contains_key(request_map, caller_id)
    /\ \A m \in core_inbox : m.id # caller_id

\* C39: every Update or ScrollTo notification the control loop takes from
\* the channel finds the window of its view: the child writes notifications
\* for a view only after its new-view response, and in every interleaving
\* of the reader thread and the main thread the window has been inserted
\* before the control loop takes the notification, so the lookup never fails.
C39_WindowFound ==
    /\ lookup # "missing"
    /\ editor_pc = "run" =>
            \A k \in 1..Len(notifications) :
                notifications[k].kind \in {"Update", "ScrollTo"} =>
                    notifications[k].view_id \in windows

\* C39 witness: an Update or ScrollTo notification that was in the channel
\* before new_view inserted the window has been handled and its window found
C39_Witness ==
    /\ lookup = "found"
    /\ editor_pc = "run"
    /\ last_event.src = "notification"
    /\ last_event.view_id = MaxViewId
    /\ notifications # <<>>
    /\ notifications[1].kind = "ScrollTo"

Nearest(offset, size, p) ==
    IF p < offset THEN p
    ELSE IF p > offset + size - 1 THEN p - (size - 1)
    ELSE offset

\* C31: after Window::scroll_to(c) the cursor is c and lies inside the
\* visible window, row_offset <= c.y <= row_offset + rows - 1 and
\* col_offset <= c.x <= col_offset + cols - 1, and the offsets changed
\* minimally: unchanged when c was visible, else moved just far enough to
\* put c on the nearest edge.
C31_ScrollToVisible ==
    window_status = "scrolled" =>
        /\ window.cursor = window_old.coordinate
        /\ window.row_offset <= window.cursor.y
        /\ window.cursor.y <= window.row_offset + window.rows - 1
        /\ window.col_offset <= window.cursor.x
        /\ window.cursor.x <= window.col_offset + window.cols - 1
        /\ window.row_offset = Nearest(window_old.row_offset, window.rows, window.cursor.y)
        /\ window.col_offset = Nearest(window_old.col_offset, window.cols, window.cursor.x)

DrawnLines ==
    Len(take(skip_(all_lines(window.line_cache), window.row_offset), window.rows))

\* C33: after Window::render every row of the window that displays no
\* buffer line shows a tilde in its first column, and no row that displays
\* a buffer line does, for every row offset.
C33_TildeRows ==
    window_status = "rendered" =>
        \A y \in 0..(window.rows - 1) :
            buf[y + 1][1].c = "~" <=> y >= DrawnLines

====
